---------------------------- MODULE Spec2Model ----------------------------
(***************************************************************************)
(* A model of the discharge-plan generation and quality-control pipeline:  *)
(*   services/openai_service.py   DischargePlanGenerator                   *)
(*   services/db_operations.py    the persistence operations               *)
(*   app/streamlit_app.py         the tab handlers that drive them         *)
(*                                                                         *)
(* Text is a sequence of tokens.  "===" is one token, each section name of *)
(* the generation prompt is one token, " " and "\n" are whitespace and     *)
(* "a", "b" are ordinary content.  A marker ===NAME=== is the three-token  *)
(* sequence <<"===", NAME, "===">>, so two markers can overlap on a "===". *)
(*                                                                         *)
(* The audit log (log_event) is append-only and read by no handler; it is  *)
(* not part of the state.  flag_type / message / suggested_fix of a flag   *)
(* are carried by no decision of the code and are left out of the rows.    *)
(***************************************************************************)
EXTENDS Integers, Sequences, FiniteSets, TLC

VARIABLES
    \* ---- database tables (core/database.py) ----
    patients,          \* patients:        patient_id -> [qc_status, wf_status]
    workflow_state,    \* workflow_state:  patient_id -> the five gates
    inpatient_data,    \* inpatient_data:  patient_id -> hospital_summary
    discharge_plans,   \* discharge_plans: rows, id = position
    plan_sections,     \* plan_sections:   rows, id = position
    qc_flags,          \* qc_flags:        rows, id = position
    finalization_data, \* finalization_data: rows (patient ids)
    \* ---- st.session_state, per browser session ----
    session,
    \* ---- history: the operation that ran last, the number of text saves ----
    last, edits,
    \* ---- DischargePlanGenerator._parse_sections, run on its own ----
    response_text, parsed,
    \* ---- DischargePlanGenerator._call_openai_with_retry, run on its own ----
    retry,
    \* ---- DischargePlanGenerator.review_discharge_plan, run on its own ----
    review,
    \* ---- st.session_state of the "Preview QC Suggestion" dialog: per flag
    \*      id, show_dialog_, generation_started_, expanded_content_ and
    \*      expansion_error_ ----
    dialog,
    \* ---- _apply_qc_suggestion run statement by statement: per session, the
    \*      position in the function and its local variables ----
    thread

vars == << patients, workflow_state, inpatient_data, discharge_plans,
           plan_sections, qc_flags, finalization_data, session, last, edits,
           response_text, parsed, retry, review, dialog, thread >>

dbVars   == << patients, workflow_state, inpatient_data, discharge_plans,
               plan_sections, qc_flags, finalization_data >>
appVars  == << patients, workflow_state, inpatient_data, discharge_plans,
               plan_sections, qc_flags, finalization_data, session, last,
               edits >>
parseVars == << response_text, parsed >>

-----------------------------------------------------------------------------
(* Bounds of the model *)

MaxPlans == 2          \* discharge_plans rows
MaxFlags == 2          \* qc_flags rows
MaxRunFlags == 1       \* flags in one QC response
MaxFinalizations == 1  \* finalization_data rows
MaxEdits == 1          \* saves of user-typed text (summary, plan section)
MaxRetriesTried == 3   \* largest max_retries a call is configured with
MaxPlanRows == 6       \* discharge_plans rows, when plans alone are created
MaxFill == 2           \* tokens of the filler after one marker of a response

-----------------------------------------------------------------------------
(* Text *)

EQ == "==="
Whitespace == {" ", "\n"}

\* str.strip()
RECURSIVE LStrip(_)
LStrip(s) == IF s # <<>> /\ Head(s) \in Whitespace THEN LStrip(Tail(s)) ELSE s
RECURSIVE RStrip(_)
RStrip(s) ==
    IF s # <<>> /\ s[Len(s)] \in Whitespace
    THEN RStrip(SubSeq(s, 1, Len(s) - 1))
    ELSE s
Strip(s) == RStrip(LStrip(s))

\* pat occurs in text at 0-based offset i
Occurs(text, pat, i) ==
    /\ i + Len(pat) <= Len(text)
    /\ SubSeq(text, i + 1, i + Len(pat)) = pat

\* str.find(pat): the 0-based offset of the first occurrence, or -1
Find(text, pat) ==
    IF \E i \in 0..Len(text) : Occurs(text, pat, i)
    THEN CHOOSE i \in 0..Len(text) :
            /\ Occurs(text, pat, i)
            /\ \A j \in 0..(i - 1) : ~Occurs(text, pat, j)
    ELSE -1

\* text[start:end] for 0 <= start, 0 <= end
Slice(text, start, end) ==
    LET e == IF end > Len(text) THEN Len(text) ELSE end
    IN  IF e <= start THEN <<>> ELSE SubSeq(text, start + 1, e)

\* a dict as a function; d[k] = v
EmptyDict == [k \in {} |-> <<>>]
Put(d, k, v) == [x \in (DOMAIN d) \cup {k} |-> IF x = k THEN v ELSE d[x]]

-----------------------------------------------------------------------------
(* DischargePlanGenerator._parse_sections  (services/openai_service.py)    *)

section_names ==
    << "MEDICATIONS", "WARNING SIGNS", "MOBILITY", "DIET", "FOLLOW-UPS",
       "TEACH-BACK" >>

\* str.title() on the six names
Title(name) ==
    CASE name = "MEDICATIONS"   -> "Medications"
      [] name = "WARNING SIGNS" -> "Warning Signs"
      [] name = "MOBILITY"      -> "Mobility"
      [] name = "DIET"          -> "Diet"
      [] name = "FOLLOW-UPS"    -> "Follow-Ups"
      [] name = "TEACH-BACK"    -> "Teach-Back"

\* f"==={section_name}==="
Marker(name) == << EQ, name, EQ >>

\* f"[{section_name.title()} content not generated]", one token
Placeholder(name) ==
    CASE name = "MEDICATIONS"   -> << "[Medications content not generated]" >>
      [] name = "WARNING SIGNS" -> << "[Warning Signs content not generated]" >>
      [] name = "MOBILITY"      -> << "[Mobility content not generated]" >>
      [] name = "DIET"          -> << "[Diet content not generated]" >>
      [] name = "FOLLOW-UPS"    -> << "[Follow-Ups content not generated]" >>
      [] name = "TEACH-BACK"    -> << "[Teach-Back content not generated]" >>

\* a variant of EndIdx: every section runs to the end of the text
EndIdxToEnd(text, i) == Len(text)

\* where the content of section i ends: the first occurrence of the next
\* name's marker, the end of the text when there is none or i is the last
EndIdx(text, i) ==
    IF i < Len(section_names)
    THEN LET end_idx == Find(text, Marker(section_names[i + 1]))
         IN  IF end_idx = -1 THEN Len(text) ELSE end_idx
    ELSE Len(text)

\* a variant of ParseStep: a section whose marker is absent gets no entry
ParseStepSkip(sections, text, i) ==
    LET section_name == section_names[i]
        marker       == Marker(section_name)
    IN  IF Find(text, marker) # -1
        THEN LET start_idx == Find(text, marker) + Len(marker)
             IN  Put(sections, Title(section_name),
                     Strip(Slice(text, start_idx, EndIdx(text, i))))
        ELSE sections

\* one iteration of the loop over section_names
ParseStep(sections, text, i) ==
    LET section_name == section_names[i]
        marker       == Marker(section_name)
    IN  IF Find(text, marker) # -1
        THEN LET start_idx == Find(text, marker) + Len(marker)
             IN  Put(sections, Title(section_name),
                     Strip(Slice(text, start_idx, EndIdx(text, i))))
        ELSE Put(sections, Title(section_name), Placeholder(section_name))

RECURSIVE ParseLoop(_, _, _)
ParseLoop(sections, text, i) ==
    IF i > Len(section_names)
    THEN sections
    ELSE ParseLoop(ParseStep(sections, text, i), text, i + 1)

\* the result: either the dict, or the exception of the six-entry check
parse_sections(text) ==
    LET sections == ParseLoop(EmptyDict, text, 1)
    IN  IF Cardinality(DOMAIN sections) # 6
        THEN [raised |-> TRUE, sections |-> sections]
        ELSE [raised |-> FALSE, sections |-> sections]

-----------------------------------------------------------------------------
(* The persistence operations  (services/db_operations.py)                 *)
(* Each takes the table it reads or writes and returns the value read or   *)
(* the table after the statement.  A row's id is its position; 0 is None.  *)

Patients == {"p1", "p2"}
Sessions == {"s1", "s2"}

RECURSIVE MaxOf(_)
MaxOf(S) ==
    IF S = {} THEN 0
    ELSE LET x == CHOOSE y \in S : TRUE
             m == MaxOf(S \ {x})
         IN  IF x > m THEN x ELSE m

\* SELECT ... WHERE patient_id = ? AND is_current = 1
\*   ORDER BY created_at DESC LIMIT 1                       -> id, 0 if none
get_current_plan(plans, patient_id) ==
    MaxOf({ i \in 1..Len(plans) :
              plans[i].patient_id = patient_id /\ plans[i].is_current })

\* a variant of create_discharge_plan: the UPDATE that marks the previous
\* plans as not current is left out
create_plan_unmarked(plans, patient_id) ==
    LET next_version ==
            MaxOf({ plans[i].version :
                      i \in { j \in 1..Len(plans) :
                                plans[j].patient_id = patient_id } }) + 1
    IN  Append(plans, [ patient_id |-> patient_id,
                        version    |-> next_version,
                        is_current |-> TRUE ])

\* MAX(version) + 1; UPDATE ... SET is_current = 0; INSERT ... is_current 1
create_discharge_plan(plans, patient_id) ==
    LET next_version ==
            MaxOf({ plans[i].version :
                      i \in { j \in 1..Len(plans) :
                                plans[j].patient_id = patient_id } }) + 1
        marked == [ i \in 1..Len(plans) |->
                      IF plans[i].patient_id = patient_id
                      THEN [plans[i] EXCEPT !.is_current = FALSE]
                      ELSE plans[i] ]
    IN  Append(marked, [ patient_id |-> patient_id,
                         version    |-> next_version,
                         is_current |-> TRUE ])

\* SELECT id FROM plan_sections WHERE plan_id = ? AND section_name = ?
\*   fetchone()                                              -> id, 0 if none
SectionRow(sections, plan_id, section_name) ==
    LET hits == { i \in 1..Len(sections) :
                    /\ sections[i].plan_id = plan_id
                    /\ sections[i].section_name = section_name }
    IN  IF hits = {} THEN 0 ELSE CHOOSE i \in hits : \A j \in hits : i <= j

\* a variant of update_plan_section: always INSERT
insert_plan_section(sections, plan_id, section_name, content) ==
    Append(sections, [ plan_id         |-> plan_id,
                       section_name    |-> section_name,
                       section_content |-> content ])

\* a variant of update_plan_section: the new content is added after the old
append_plan_section(sections, plan_id, section_name, content) ==
    LET existing == SectionRow(sections, plan_id, section_name)
    IN  IF existing # 0
        THEN [sections EXCEPT ![existing].section_content = @ \o content]
        ELSE Append(sections, [ plan_id         |-> plan_id,
                                section_name    |-> section_name,
                                section_content |-> content ])

\* update the existing row, or insert a new one
update_plan_section(sections, plan_id, section_name, content) ==
    LET existing == SectionRow(sections, plan_id, section_name)
    IN  IF existing # 0
        THEN [sections EXCEPT ![existing].section_content = content]
        ELSE Append(sections, [ plan_id         |-> plan_id,
                                section_name    |-> section_name,
                                section_content |-> content ])

\* {row[0]: row[1] for row in rows}: a later row of the same name wins
RECURSIVE DictOfRows(_, _, _, _)
DictOfRows(sections, plan_id, i, d) ==
    IF i > Len(sections) THEN d
    ELSE DictOfRows(sections, plan_id, i + 1,
            IF sections[i].plan_id = plan_id
            THEN Put(d, sections[i].section_name, sections[i].section_content)
            ELSE d)
get_plan_sections(sections, plan_id) ==
    DictOfRows(sections, plan_id, 1, EmptyDict)

\* INSERT INTO qc_flags (...)
create_qc_flag(flags, patient_id, plan_id, flag) ==
    Append(flags, [ patient_id     |-> patient_id,
                    plan_id        |-> plan_id,
                    severity       |-> flag.severity,
                    target_section |-> flag.target_section,
                    resolved       |-> flag.resolved ])

\* SELECT * FROM qc_flags WHERE patient_id = ? AND resolved = ?  -> the ids
get_qc_flags(flags, patient_id, resolved) ==
    { i \in 1..Len(flags) :
        flags[i].patient_id = patient_id /\ flags[i].resolved = resolved }

\* a variant of resolve_qc_flag: WHERE patient_id = (the flag's patient)
resolve_patient_flags(flags, flag_id) ==
    [ i \in 1..Len(flags) |->
        IF flag_id \in 1..Len(flags) /\ flags[i].patient_id = flags[flag_id].patient_id
        THEN [flags[i] EXCEPT !.resolved = TRUE]
        ELSE flags[i] ]

\* a variant of resolve_qc_flag: the UPDATE matches no row
resolve_no_flag(flags, flag_id) == flags

\* UPDATE qc_flags SET resolved = 1 WHERE id = ?
resolve_qc_flag(flags, flag_id) ==
    [ i \in 1..Len(flags) |->
        IF i = flag_id THEN [flags[i] EXCEPT !.resolved = TRUE] ELSE flags[i] ]

\* a variant of ResolveAll: the old flags are left as they are
ResolveNone(flags, ids) == flags

RECURSIVE ResolveAll(_, _)
ResolveAll(flags, ids) ==
    IF ids = {} THEN flags
    ELSE LET id == CHOOSE x \in ids : TRUE
         IN  ResolveAll(resolve_qc_flag(flags, id), ids \ {id})

\* not any(f.severity in ["RED", "YELLOW"] for f in unresolved_flags)
check_qc_clearance(flags, patient_id) ==
    LET unresolved_flags == get_qc_flags(flags, patient_id, FALSE)
        has_critical_flags ==
            \E f \in unresolved_flags : flags[f].severity \in {"RED", "YELLOW"}
    IN  ~has_critical_flags

\* UPDATE patients SET qc_status = ? WHERE patient_id = ?
update_patient_qc(rows, patient_id, qc_status) ==
    [rows EXCEPT ![patient_id].qc_status = qc_status]

\* UPDATE patients SET wf_status = ? WHERE patient_id = ?
update_patient_wf(rows, patient_id, wf_status) ==
    [rows EXCEPT ![patient_id].wf_status = wf_status]

\* a variant of update_workflow_state: withdrawing the clearance withdraws
\* the approval with it
update_workflow_state_withdraw(rows, patient_id, step, value) ==
    [rows EXCEPT ![patient_id][step] = value,
                 ![patient_id].final_approval_done =
                     IF step = "qc_clearance_done" /\ ~value THEN FALSE ELSE @]

\* UPDATE workflow_state SET <step> = ? WHERE patient_id = ?
update_workflow_state(rows, patient_id, step, value) ==
    [rows EXCEPT ![patient_id][step] = value]

\* INSERT INTO finalization_data (...)
save_finalization_data(rows, patient_id) == Append(rows, patient_id)

\* UPDATE inpatient_data SET hospital_summary = ? (the patient's latest row)
save_inpatient_data(rows, patient_id, hospital_summary) ==
    [rows EXCEPT ![patient_id] = hospital_summary]

-----------------------------------------------------------------------------
(* Inputs of the handlers *)

Severities == {"RED", "YELLOW", "GREEN"}

\* Elements of the JSON array a QC review returns.  The service is free to
\* return any strings, and to leave a key out: the last one has no
\* "severity", so flag_data["severity"] raises KeyError.
FlagKinds ==
    { [severity |-> "RED",    target_section |-> "Warning Signs"],
      [severity |-> "YELLOW", target_section |-> "Medications"],
      [severity |-> "GREEN",  target_section |-> ""],
      [severity |-> "LOW",    target_section |-> "Summary"],
      [target_section |-> "Diet"] }

RECURSIVE SeqsUpTo(_, _)
SeqsUpTo(S, n) ==
    IF n = 0 THEN { <<>> }
    ELSE LET shorter == SeqsUpTo(S, n - 1)
         IN  shorter \cup { Append(q, x) : q \in shorter, x \in S }

\* what review_discharge_plan can return
QCRuns == SeqsUpTo(FlagKinds, MaxRunFlags)

\* a response with every marker, in order, each followed by content
FullResponse ==
    Marker("MEDICATIONS") \o << "\n", "a", "\n" >> \o
    Marker("WARNING SIGNS") \o << "a" >> \o
    Marker("MOBILITY") \o << "a" >> \o
    Marker("DIET") \o << "a" >> \o
    Marker("FOLLOW-UPS") \o << "a" >> \o
    Marker("TEACH-BACK") \o << " ", "a" >>

GenResponses == { FullResponse }

\* generate_discharge_plan on each of them: _parse_sections(response_text)
Generated == [t \in GenResponses |-> parse_sections(t)]

\* what the user can leave in the dialog's text area before committing
ApplyContents ==
    { << "b" >>, Marker("MOBILITY") \o << "\n", "b", " " >>,
      Marker("FOLLOW-UPS") \o << "\n", "b" >> }

\* what the user can type into the Plan Editor
EditTexts == { << "b" >> }

\* what the user can type into the hospital summary
SummaryTexts == { << >>, << " " >>, << "a" >> }

Gates ==
    { "hospital_summary_done", "ai_generation_done", "qc_analysis_done",
      "qc_clearance_done", "final_approval_done" }

-----------------------------------------------------------------------------
(* Helpers of the handlers  (app/streamlit_app.py)                         *)

\* the severity cascade over the flags a QC run returned
RunStatus(run) ==
    IF \E i \in 1..Len(run) : run[i].severity = "RED" THEN "RED"
    ELSE IF \E i \in 1..Len(run) : run[i].severity = "YELLOW" THEN "YELLOW"
    ELSE "GREEN"

\* the loop "for flag_data in qc_flags: ... create_qc_flag(...)"; it stops
\* with KeyError at the first element without a "severity"
RECURSIVE SaveFlags(_, _, _, _, _)
SaveFlags(flags, patient_id, plan_id, run, i) ==
    IF i > Len(run) THEN [raised |-> FALSE, flags |-> flags]
    ELSE IF "severity" \notin DOMAIN run[i]
         THEN [raised |-> TRUE, flags |-> flags]
         ELSE SaveFlags(
                create_qc_flag(flags, patient_id, plan_id,
                    [ severity       |-> run[i].severity,
                      target_section |-> run[i].target_section,
                      resolved       |-> FALSE ]),
                patient_id, plan_id, run, i + 1)

\* the loop "for section_name, content in sections.items()"
RECURSIVE SaveSections(_, _, _, _)
SaveSections(rows, plan_id, sections, i) ==
    IF i > Len(section_names) THEN rows
    ELSE SaveSections(
            update_plan_section(rows, plan_id, Title(section_names[i]),
                                sections[Title(section_names[i])]),
            plan_id, sections, i + 1)

\* re.sub(r'={3,}\s*[A-Z\s]+={3,}\s*\n?', '', content): the tokens that
\* [A-Z\s] accepts are whitespace and the names without a hyphen
HeaderClass == Whitespace \cup {"MEDICATIONS", "WARNING SIGNS", "MOBILITY", "DIET"}

RECURSIVE RunLen(_, _, _)
RunLen(text, i, S) ==
    IF i <= Len(text) /\ text[i] \in S THEN 1 + RunLen(text, i + 1, S) ELSE 0

\* the length of the match that starts at position i, 0 when there is none
MatchLen(text, i) ==
    IF text[i] # EQ THEN 0
    ELSE LET k == RunLen(text, i + 1, HeaderClass)
         IN  IF k = 0 \/ i + 1 + k > Len(text) \/ text[i + 1 + k] # EQ
             THEN 0
             ELSE 2 + k + RunLen(text, i + 2 + k, Whitespace)

RECURSIVE SubHeaders(_, _)
SubHeaders(text, i) ==
    IF i > Len(text) THEN << >>
    ELSE IF MatchLen(text, i) > 0
         THEN SubHeaders(text, i + MatchLen(text, i))
         ELSE << text[i] >> \o SubHeaders(text, i + 1)

\* cleaned_content of _apply_qc_suggestion
CleanContent(content) == Strip(SubHeaders(content, 1))

\* new_status of _apply_qc_suggestion, over the flags still unresolved
RemainingStatus(flags, patient_id, flag_id) ==
    LET unresolved_flags == get_qc_flags(flags, patient_id, FALSE)
        remaining_flags  == unresolved_flags \ {flag_id}
    IN  IF \E f \in remaining_flags : flags[f].severity = "RED" THEN "RED"
        ELSE IF \E f \in remaining_flags : flags[f].severity = "YELLOW"
             THEN "YELLOW"
             ELSE "GREEN"

\* p.qc_status = ... : the Patient object held in st.session_state.patients
SetSessionQc(ss, s, patient_id, qc_status) ==
    [ss EXCEPT ![s].patients[patient_id].qc_status = qc_status]

\* st.session_state.workflow[step] = value
SetSessionGate(ss, s, step, value) ==
    [ss EXCEPT ![s].workflow[step] = value]

-----------------------------------------------------------------------------
(* The handlers  (app/streamlit_app.py)                                    *)
(* Session s acts on p, the patient it has selected.                       *)

Selected(s) == session[s].selected_patient_id

Done(op, p, result) == [op |-> op, patient |-> p, result |-> result]

\* sidebar: click on a patient card.  Next follows one session on the patient
\* it opened with, so this step is not one of its disjuncts.
SelectPatient(s, p) ==
    /\ p # Selected(s)
    /\ session' = [session EXCEPT
                     ![s].selected_patient_id = p,
                     ![s].workflow = workflow_state[p]]
    /\ last' = Done("SelectPatient", p, "ok")
    /\ UNCHANGED << dbVars, edits >>

\* a variant of SaveHospitalSummary: the gate is set whatever was saved
SaveHospitalSummaryAlways(s, hospital_summary) ==
    LET p == Selected(s)
        nonblank == hospital_summary # << >> /\ Strip(hospital_summary) # << >>
    IN  /\ inpatient_data' = save_inpatient_data(inpatient_data, p, hospital_summary)
        /\ workflow_state' =
             update_workflow_state(workflow_state, p, "hospital_summary_done", TRUE)
        /\ session' = SetSessionGate(session, s, "hospital_summary_done", TRUE)
        /\ last' = Done("SaveHospitalSummary", p, IF nonblank THEN "ok" ELSE "blank")
        /\ edits < MaxEdits
        /\ edits' = edits + 1
        /\ UNCHANGED << patients, discharge_plans, plan_sections, qc_flags,
                        finalization_data >>

\* Patient Info tab: "Save Hospital Summary"
SaveHospitalSummary(s, hospital_summary) ==
    LET p == Selected(s)
        nonblank == hospital_summary # << >> /\ Strip(hospital_summary) # << >>
    IN  /\ inpatient_data' = save_inpatient_data(inpatient_data, p, hospital_summary)
        /\ workflow_state' =
             IF nonblank
             THEN update_workflow_state(workflow_state, p, "hospital_summary_done", TRUE)
             ELSE workflow_state
        /\ session' =
             IF nonblank
             THEN SetSessionGate(session, s, "hospital_summary_done", TRUE)
             ELSE session
        /\ last' = Done("SaveHospitalSummary", p, IF nonblank THEN "ok" ELSE "blank")
        /\ edits < MaxEdits
        /\ edits' = edits + 1
        /\ UNCHANGED << patients, discharge_plans, plan_sections, qc_flags,
                        finalization_data >>

\* a variant of GenerateFails: the handler does not return, and goes on to
\* the workflow update
GenerateFailsMarks(s, r) ==
    /\ IF r.raised THEN TRUE ELSE Generated[r.text].raised
    /\ workflow_state' =
         update_workflow_state(
            update_workflow_state(workflow_state, Selected(s), "ai_generation_done", TRUE),
            Selected(s), "qc_analysis_done", TRUE)
    /\ session' =
         SetSessionGate(
            SetSessionGate(session, s, "ai_generation_done", TRUE),
            s, "qc_analysis_done", TRUE)
    /\ last' = Done("Generate", Selected(s), "failed")
    /\ UNCHANGED << patients, inpatient_data, discharge_plans, plan_sections,
                    qc_flags, finalization_data, edits >>

\* Generate tab: generate_discharge_plan raised (the call exhausted its
\* retries, or the six-entry check of the parser fired): the handler returns
GenerateFails(s, r) ==
    /\ IF r.raised THEN TRUE ELSE Generated[r.text].raised
    /\ last' = Done("Generate", Selected(s), "failed")
    /\ UNCHANGED << dbVars, session, edits >>

\* Generate tab: the plan is generated and stored; qc is what the automatic
\* QC review then does: it raises, or it returns a list
Generate(s, r, qc) ==
    LET p        == Selected(s)
        sections == Generated[r.text].sections
        plans1   == create_discharge_plan(discharge_plans, p)
        plan_id  == Len(plans1)
        rows1    == SaveSections(plan_sections, plan_id, sections, 1)
        current_plan == get_current_plan(plans1, p)
        saved    == IF qc.raised
                    THEN [raised |-> TRUE, flags |-> qc_flags]
                    ELSE SaveFlags(qc_flags, p, current_plan, qc.flags, 1)
        qc_status == IF saved.raised THEN "YELLOW" ELSE RunStatus(qc.flags)
    IN  /\ ~r.raised
        /\ ~Generated[r.text].raised
        /\ Len(discharge_plans) < MaxPlans
        /\ Len(saved.flags) <= MaxFlags
        /\ discharge_plans' = plans1
        /\ plan_sections' = rows1
        /\ qc_flags' = saved.flags
        /\ patients' = update_patient_qc(patients, p, qc_status)
        /\ workflow_state' =
             update_workflow_state(
                update_workflow_state(workflow_state, p, "ai_generation_done", TRUE),
                p, "qc_analysis_done", TRUE)
        /\ session' =
             SetSessionGate(
                SetSessionGate(SetSessionQc(session, s, p, qc_status),
                               s, "ai_generation_done", TRUE),
                s, "qc_analysis_done", TRUE)
        /\ last' = Done("Generate", p, IF saved.raised THEN "qc_failed" ELSE "ok")
        /\ UNCHANGED << inpatient_data, finalization_data, edits >>

\* a variant of RerunQCFails: a failed review falls back to YELLOW, as the
\* automatic review of the Generate tab does
RerunQCFailsYellow(s, qc) ==
    LET p == Selected(s)
    IN  /\ IF get_current_plan(discharge_plans, p) = 0 THEN TRUE ELSE qc.raised
        /\ patients' = update_patient_qc(patients, p, "YELLOW")
        /\ session' = SetSessionQc(session, s, p, "YELLOW")
        /\ last' = Done("RerunQC", p, "failed")
        /\ UNCHANGED << workflow_state, inpatient_data, discharge_plans,
                        plan_sections, qc_flags, finalization_data, edits >>

\* QC Review tab: "Re-run QC" with no plan, or with a review call that raises
RerunQCFails(s, qc) ==
    LET p == Selected(s)
    IN  /\ IF get_current_plan(discharge_plans, p) = 0 THEN TRUE ELSE qc.raised
        /\ last' = Done("RerunQC", p, "failed")
        /\ UNCHANGED << dbVars, session, edits >>

\* QC Review tab: "Re-run QC"; qc is the list the review returned
RerunQC(s, qc) ==
    LET p            == Selected(s)
        current_plan == get_current_plan(discharge_plans, p)
        old_flags    == get_qc_flags(qc_flags, p, FALSE)
        resolved     == ResolveAll(qc_flags, old_flags)
        saved        == SaveFlags(resolved, p, current_plan, qc.flags, 1)
        qc_status    == RunStatus(qc.flags)
        clearance    == check_qc_clearance(saved.flags, p)
    IN  /\ current_plan # 0
        /\ ~qc.raised
        /\ Len(saved.flags) <= MaxFlags
        /\ qc_flags' = saved.flags
        /\ IF saved.raised
           THEN \* the except branch: an error message, nothing else is written
                /\ last' = Done("RerunQC", p, "raised")
                /\ UNCHANGED << patients, workflow_state, session >>
           ELSE /\ patients' = update_patient_qc(patients, p, qc_status)
                /\ workflow_state' =
                     update_workflow_state(workflow_state, p, "qc_clearance_done", clearance)
                /\ session' =
                     SetSessionGate(SetSessionQc(session, s, p, qc_status),
                                    s, "qc_clearance_done", clearance)
                /\ last' = [ op |-> "RerunQC", patient |-> p, result |-> "ok",
                             flags |-> qc.flags ]
        /\ UNCHANGED << inpatient_data, discharge_plans, plan_sections,
                        finalization_data, edits >>

\* history: the flag and the content of the apply that ran just before, when
\* the step before was an apply that wrote a section
PrevApply ==
    IF last.op = "ApplySuggestion" /\ last.result = "ok"
    THEN [flag |-> last.flag, content |-> last.content]
    ELSE [flag |-> 0, content |-> << >>]

\* a variant of ApplySuggestion: without a section to write, the apply
\* returns and leaves the flag as it was
ApplySuggestionSkips(s, flag_id, content) ==
    LET p             == Selected(s)
        current_plan  == get_current_plan(discharge_plans, p)
        sections_dict == get_plan_sections(plan_sections, current_plan)
        section_name  == qc_flags[flag_id].target_section
        written       == section_name # "" /\ section_name \in DOMAIN sections_dict
        flags1        == resolve_qc_flag(qc_flags, flag_id)
        new_status    == RemainingStatus(flags1, p, flag_id)
        clearance     == check_qc_clearance(flags1, p)
    IN  /\ flag_id \in get_qc_flags(qc_flags, p, FALSE)
        /\ IF current_plan = 0
           THEN /\ last' = Done("ApplySuggestion", p, "no_plan")
                /\ UNCHANGED << dbVars, session >>
           ELSE IF ~written
           THEN /\ last' = [ op |-> "ApplySuggestion", patient |-> p,
                             result |-> "no_target", flag |-> flag_id,
                             content |-> content, prev |-> PrevApply ]
                /\ UNCHANGED << dbVars, session >>
           ELSE /\ plan_sections' =
                     update_plan_section(plan_sections, current_plan,
                                         section_name, CleanContent(content))
                /\ qc_flags' = flags1
                /\ patients' = update_patient_qc(patients, p, new_status)
                /\ workflow_state' =
                     update_workflow_state(workflow_state, p, "qc_clearance_done", clearance)
                /\ session' =
                     SetSessionGate(SetSessionQc(session, s, p, new_status),
                                    s, "qc_clearance_done", clearance)
                /\ last' = [ op |-> "ApplySuggestion", patient |-> p,
                             result |-> "ok", flag |-> flag_id,
                             content |-> content, prev |-> PrevApply ]
                /\ UNCHANGED << inpatient_data, discharge_plans, finalization_data >>
        /\ UNCHANGED edits

\* _apply_qc_suggestion(p, flag, content), committed from the dialog of an
\* unresolved flag of the selected patient
ApplySuggestion(s, flag_id, content) ==
    LET p             == Selected(s)
        current_plan  == get_current_plan(discharge_plans, p)
        sections_dict == get_plan_sections(plan_sections, current_plan)
        section_name  == qc_flags[flag_id].target_section
        written       == section_name # "" /\ section_name \in DOMAIN sections_dict
        flags1        == resolve_qc_flag(qc_flags, flag_id)
        new_status    == RemainingStatus(flags1, p, flag_id)
        clearance     == check_qc_clearance(flags1, p)
    IN  /\ flag_id \in get_qc_flags(qc_flags, p, FALSE)
        /\ IF current_plan = 0
           THEN \* "No discharge plan found": return
                /\ last' = Done("ApplySuggestion", p, "no_plan")
                /\ UNCHANGED << dbVars, session >>
           ELSE /\ plan_sections' =
                     IF written
                     THEN update_plan_section(plan_sections, current_plan,
                                              section_name, CleanContent(content))
                     ELSE plan_sections
                /\ qc_flags' = flags1
                /\ patients' = update_patient_qc(patients, p, new_status)
                /\ workflow_state' =
                     update_workflow_state(workflow_state, p, "qc_clearance_done", clearance)
                /\ session' =
                     SetSessionGate(SetSessionQc(session, s, p, new_status),
                                    s, "qc_clearance_done", clearance)
                /\ last' = [ op |-> "ApplySuggestion", patient |-> p,
                             result |-> IF written THEN "ok" ELSE "no_target",
                             flag |-> flag_id, content |-> content,
                             prev |-> PrevApply ]
                /\ UNCHANGED << inpatient_data, discharge_plans, finalization_data >>
        /\ UNCHANGED edits

\* a variant of SaveSection: an edit withdraws the QC result, so that the
\* plan has to be reviewed again before it is finalized
SaveSectionInvalidates(s, section, text) ==
    LET p    == Selected(s)
        plan == get_current_plan(discharge_plans, p)
    IN  /\ plan # 0
        /\ edits < MaxEdits
        /\ edits' = edits + 1
        /\ plan_sections' = update_plan_section(plan_sections, plan, section, text)
        /\ patients' = update_patient_qc(patients, p, "YELLOW")
        /\ session' = SetSessionQc(session, s, p, "YELLOW")
        /\ last' = Done("SaveSection", p, "ok")
        /\ UNCHANGED << workflow_state, inpatient_data, discharge_plans,
                        qc_flags, finalization_data >>

\* Plan Editor tab: "Save Changes"
SaveSection(s, section, text) ==
    LET p    == Selected(s)
        plan == get_current_plan(discharge_plans, p)
    IN  /\ plan # 0
        /\ edits < MaxEdits
        /\ edits' = edits + 1
        /\ plan_sections' = update_plan_section(plan_sections, plan, section, text)
        /\ last' = Done("SaveSection", p, "ok")
        /\ UNCHANGED << patients, workflow_state, inpatient_data, discharge_plans,
                        qc_flags, finalization_data, session >>

\* Plan Editor tab: "Re-run QC"
EditorRerunQC(s) ==
    LET p    == Selected(s)
        plan == get_current_plan(discharge_plans, p)
    IN  /\ plan # 0
        /\ patients' = update_patient_qc(patients, p, "GREEN")
        /\ workflow_state' =
             update_workflow_state(workflow_state, p, "qc_analysis_done", TRUE)
        /\ session' =
             SetSessionGate(SetSessionQc(session, s, p, "GREEN"),
                            s, "qc_analysis_done", TRUE)
        /\ last' = Done("EditorRerunQC", p, "ok")
        /\ UNCHANGED << inpatient_data, discharge_plans, plan_sections, qc_flags,
                        finalization_data, edits >>

\* a variant of FinalizeRefused: the refusal still records the approval
FinalizeRefusedMarks(s) ==
    LET p == Selected(s)
    IN  /\ IF session[s].patients[p].qc_status # "GREEN"
           THEN TRUE
           ELSE get_current_plan(discharge_plans, p) = 0
        /\ workflow_state' =
             update_workflow_state(workflow_state, p, "final_approval_done", TRUE)
        /\ last' = Done("Finalize", p, "refused")
        /\ UNCHANGED << patients, inpatient_data, discharge_plans, plan_sections,
                        qc_flags, finalization_data, session, edits >>

\* Finalize tab, opened while p.qc_status is not GREEN (st.stop()) or while
\* there is no plan (return): the Finalize button is never reached
FinalizeRefused(s) ==
    LET p == Selected(s)
    IN  /\ IF session[s].patients[p].qc_status # "GREEN"
           THEN TRUE
           ELSE get_current_plan(discharge_plans, p) = 0
        /\ last' = Done("Finalize", p, "refused")
        /\ UNCHANGED << dbVars, session, edits >>

\* a variant of Finalize: the button is reached whatever the QC status
FinalizeUngated(s) ==
    LET p == Selected(s)
    IN  /\ get_current_plan(discharge_plans, p) # 0
        /\ Len(finalization_data) < MaxFinalizations
        /\ finalization_data' = save_finalization_data(finalization_data, p)
        /\ workflow_state' =
             update_workflow_state(workflow_state, p, "final_approval_done", TRUE)
        /\ patients' = update_patient_wf(patients, p, "Finalized")
        /\ session' =
             [SetSessionGate(session, s, "final_approval_done", TRUE)
                EXCEPT ![s].patients[p].wf_status = "Finalized"]
        /\ last' = Done("Finalize", p, "ok")
        /\ UNCHANGED << inpatient_data, discharge_plans, plan_sections, qc_flags,
                        edits >>

\* a variant of Finalize: the button is reached whatever the QC status, and
\* whether there is a plan or not
FinalizeUnchecked(s) ==
    LET p == Selected(s)
    IN  /\ Len(finalization_data) < MaxFinalizations
        /\ finalization_data' = save_finalization_data(finalization_data, p)
        /\ workflow_state' =
             update_workflow_state(workflow_state, p, "final_approval_done", TRUE)
        /\ patients' = update_patient_wf(patients, p, "Finalized")
        /\ session' =
             [SetSessionGate(session, s, "final_approval_done", TRUE)
                EXCEPT ![s].patients[p].wf_status = "Finalized"]
        /\ last' = Done("Finalize", p, "ok")
        /\ UNCHANGED << inpatient_data, discharge_plans, plan_sections, qc_flags,
                        edits >>

\* Finalize tab: "Finalize Discharge Plan"
Finalize(s) ==
    LET p == Selected(s)
    IN  /\ session[s].patients[p].qc_status = "GREEN"
        /\ get_current_plan(discharge_plans, p) # 0
        /\ Len(finalization_data) < MaxFinalizations
        /\ finalization_data' = save_finalization_data(finalization_data, p)
        /\ workflow_state' =
             update_workflow_state(workflow_state, p, "final_approval_done", TRUE)
        /\ patients' = update_patient_wf(patients, p, "Finalized")
        /\ session' =
             [SetSessionGate(session, s, "final_approval_done", TRUE)
                EXCEPT ![s].patients[p].wf_status = "Finalized"]
        /\ last' = Done("Finalize", p, "ok")
        /\ UNCHANGED << inpatient_data, discharge_plans, plan_sections, qc_flags,
                        edits >>

-----------------------------------------------------------------------------
(* The application, one session *)

NoGates == [g \in Gates |-> FALSE]

\* the parser, the retry loop and the QC review at rest
NotParsed == [done |-> FALSE, raised |-> FALSE, sections |-> EmptyDict]
NotCalled == [ pc |-> "idle", max_retries |-> 0, attempt |-> 0, calls |-> 0,
               errors |-> << >>, waits |-> << >>, result |-> << >>,
               cause |-> "" ]
NotReviewed == [ pc |-> "idle", call_raised |-> FALSE, is_none |-> FALSE,
                 text |-> << >>, raised |-> FALSE, flags |-> << >> ]

\* seed_demo_data / create_realistic_patient: status YELLOW, Draft, no gate
\* set, a hospital summary on file; init_state: the first patient selected
\* no dialog key is set: show_dialog_ reads False, the three others are
\* initialised to None, None and False when the dialog is first drawn
NoDialog ==
    [ show |-> FALSE, generation_started |-> FALSE,
      expanded_content |-> [is_none |-> TRUE, text |-> << >>],
      expansion_error |-> FALSE ]
NoDialogs == [f \in 1..MaxFlags |-> NoDialog]

\* no session is inside _apply_qc_suggestion
NoThread ==
    [ pc |-> "idle", flag |-> 0, content |-> << >>, written |-> FALSE,
      new_status |-> "", clearance |-> FALSE ]
NoThreads == [s \in Sessions |-> NoThread]

FreshApp ==
    /\ patients = [p \in Patients |-> [qc_status |-> "YELLOW", wf_status |-> "Draft"]]
    /\ workflow_state = [p \in Patients |-> NoGates]
    /\ inpatient_data = [p \in Patients |-> << "a" >>]
    /\ discharge_plans = << >>
    /\ plan_sections = << >>
    /\ qc_flags = << >>
    /\ finalization_data = << >>
    /\ session = [s \in Sessions |->
                    [ selected_patient_id |-> "p1",
                      patients |-> [p \in Patients |->
                                      [qc_status |-> "YELLOW", wf_status |-> "Draft"]],
                      workflow |-> NoGates ]]
    /\ last = Done("Init", "p1", "ok")
    /\ edits = 0

Init ==
    /\ FreshApp
    /\ response_text = << >>
    /\ parsed = NotParsed
    /\ retry = NotCalled
    /\ review = NotReviewed
    /\ dialog = NoDialogs
    /\ thread = NoThreads

\* what _call_openai_with_retry does for the generation prompt, and what
\* review_discharge_plan does: raise, or return
ServiceOutcomes ==
    { [raised |-> FALSE, text |-> t] : t \in GenResponses }
        \cup { [raised |-> TRUE, text |-> << >>] }
QCOutcomes ==
    { [raised |-> FALSE, flags |-> q] : q \in QCRuns }
        \cup { [raised |-> TRUE, flags |-> << >>] }

\* the handlers leave the stand-alone parser and retry loop alone
Idle == UNCHANGED << response_text, parsed, retry, review, dialog, thread >>

\* one session, which stays on the patient it selected at start
Next ==
    \E s \in {"s1"} :
        \/ \E t \in SummaryTexts : SaveHospitalSummary(s, t) /\ Idle
        \/ \E r \in ServiceOutcomes : GenerateFails(s, r) /\ Idle
        \/ \E r \in ServiceOutcomes, qc \in QCOutcomes : Generate(s, r, qc) /\ Idle
        \/ \E qc \in QCOutcomes : RerunQCFails(s, qc) /\ Idle
        \/ \E qc \in QCOutcomes : RerunQC(s, qc) /\ Idle
        \/ \E f \in 1..Len(qc_flags), c \in ApplyContents :
              ApplySuggestion(s, f, c) /\ Idle
        \/ \E sec \in { Title(section_names[i]) : i \in 1..Len(section_names) },
              t \in EditTexts : SaveSection(s, sec, t) /\ Idle
        \/ EditorRerunQC(s) /\ Idle
        \/ FinalizeRefused(s) /\ Idle
        \/ Finalize(s) /\ Idle

Spec == Init /\ [][Next]_vars

-----------------------------------------------------------------------------
(* Properties of the workflow, checked under Spec                          *)

\* the severity aggregate of a set of flags: RED, else YELLOW, else GREEN
Aggregate(flags, ids) ==
    IF \E f \in ids : flags[f].severity = "RED" THEN "RED"
    ELSE IF \E f \in ids : flags[f].severity = "YELLOW" THEN "YELLOW"
    ELSE "GREEN"

UnresolvedOf(p) == get_qc_flags(qc_flags, p, FALSE)

UnresolvedOfCurrentPlan(p) ==
    { f \in UnresolvedOf(p) :
        qc_flags[f].plan_id = get_current_plan(discharge_plans, p) }

NoCriticalUnresolved(p) ==
    ~\E f \in UnresolvedOf(p) : qc_flags[f].severity \in {"RED", "YELLOW"}

Committed == {"ok", "no_target"}

\* C1: in every state, qc_clearance_done of a patient is true if and only
\* if the patient has a current plan and no unresolved flag of the patient
\* has severity RED or YELLOW.
C1_ClearanceIffPlanAndNoCriticalFlag ==
    \A p \in Patients :
        workflow_state[p].qc_clearance_done
           <=> (get_current_plan(discharge_plans, p) # 0 /\ NoCriticalUnresolved(p))

\* C2: final_approval_done goes from false to true only in a Finalize step
\* that completes, and such a step starts in a state where the QC status of
\* the patient is GREEN.
C2_ApprovalOnlyByFinalizeOnGreen ==
    [][ \A p \in Patients :
          (~workflow_state[p].final_approval_done
              /\ workflow_state'[p].final_approval_done)
          => /\ last'.op = "Finalize"
             /\ last'.result = "ok"
             /\ last'.patient = p
             /\ patients[p].qc_status = "GREEN" ]_vars

\* a Finalize that went through
C2_Witness ==
    /\ last.op = "Finalize"
    /\ last.result = "ok"
    /\ workflow_state[last.patient].final_approval_done
    /\ patients[last.patient].wf_status = "Finalized"
    /\ patients[last.patient].qc_status = "GREEN"
    /\ Len(finalization_data) = 1

\* C3: a Finalize invoked while the QC status of the patient is RED or
\* YELLOW is refused and changes no workflow gate, no patient row and no
\* finalization record.
C3_FinalizeRefusedUnlessGreen ==
    [][ (last'.op = "Finalize"
            /\ patients[last'.patient].qc_status \in {"RED", "YELLOW"})
        => /\ last'.result = "refused"
           /\ UNCHANGED << workflow_state, patients, finalization_data,
                           discharge_plans, plan_sections, qc_flags,
                           inpatient_data, session >> ]_vars

\* a Finalize refused on a RED patient that has a plan
C3_Witness ==
    /\ last.op = "Finalize"
    /\ last.result = "refused"
    /\ get_current_plan(discharge_plans, last.patient) # 0
    /\ patients[last.patient].qc_status = "RED"
    /\ ~workflow_state[last.patient].final_approval_done
    /\ patients[last.patient].wf_status = "Draft"
    /\ finalization_data = << >>

\* C4: the QC status stored at the end of a completed Generate (its initial
\* QC pass), QC re-run or flag resolution is the severity aggregate of the
\* unresolved flags of the patient.
C4_StoredStatusIsAggregate ==
    (last.op \in {"Generate", "RerunQC", "ApplySuggestion"}
        /\ last.result \in Committed)
    => patients[last.patient].qc_status
          = Aggregate(qc_flags, UnresolvedOf(last.patient))

\* C5: after an operation that writes the QC status has completed, the
\* stored status is the severity aggregate of the unresolved flags of the
\* current plan of the patient.
C5_StatusDerivedFromCurrentPlan ==
    (last.op \in {"Generate", "RerunQC", "EditorRerunQC", "ApplySuggestion"}
        /\ last.result \in Committed)
    => patients[last.patient].qc_status
          = Aggregate(qc_flags, UnresolvedOfCurrentPlan(last.patient))

\* C6: after a committed apply of a flag the flag is resolved, the QC status
\* is the aggregate of the flags that remain unresolved and qc_clearance_done
\* says whether a RED or YELLOW one remains; when none remains the status is
\* GREEN and qc_clearance_done is true.
C6_ApplyResolvesAndRecomputes ==
    (last.op = "ApplySuggestion" /\ last.result \in Committed)
    => /\ qc_flags[last.flag].resolved
       /\ patients[last.patient].qc_status
             = Aggregate(qc_flags, UnresolvedOf(last.patient))
       /\ workflow_state[last.patient].qc_clearance_done
             = NoCriticalUnresolved(last.patient)
       /\ UnresolvedOf(last.patient) = {}
             => /\ patients[last.patient].qc_status = "GREEN"
                /\ workflow_state[last.patient].qc_clearance_done

\* the one RED flag of a run applied into its section: GREEN, cleared
C6_Witness ==
    /\ last.op = "ApplySuggestion"
    /\ last.result = "ok"
    /\ Len(qc_flags) = 1
    /\ qc_flags[last.flag].severity = "RED"
    /\ qc_flags[last.flag].target_section = "Warning Signs"
    /\ qc_flags[last.flag].resolved
    /\ patients[last.patient].qc_status = "GREEN"
    /\ workflow_state[last.patient].qc_clearance_done

\* C7: once a QC re-run has completed, the unresolved flags of the patient
\* are exactly the flags that run returned, in the rows it appended, and
\* every flag the patient had before is resolved.
C7_RerunReplacesUnresolvedFlags ==
    (last.op = "RerunQC" /\ last.result = "ok")
    => LET p    == last.patient
           n    == Len(last.flags)
           base == Len(qc_flags) - n
       IN  /\ base >= 0
           /\ UnresolvedOf(p) = (base + 1)..Len(qc_flags)
           /\ \A i \in 1..n :
                 /\ qc_flags[base + i].severity = last.flags[i].severity
                 /\ qc_flags[base + i].target_section = last.flags[i].target_section
                 /\ qc_flags[base + i].patient_id = p
                 /\ qc_flags[base + i].plan_id = get_current_plan(discharge_plans, p)
           /\ \A f \in 1..base : qc_flags[f].patient_id = p => qc_flags[f].resolved

\* a re-run that found a YELLOW flag where a RED one was still open
C7_Witness ==
    /\ last.op = "RerunQC"
    /\ last.result = "ok"
    /\ Len(last.flags) = 1
    /\ Len(qc_flags) = 2
    /\ qc_flags[1].severity = "RED"
    /\ qc_flags[1].resolved
    /\ qc_flags[2].severity = "YELLOW"
    /\ ~qc_flags[2].resolved

\* C13: after a Generate whose QC review failed, and after a QC re-run on
\* an existing plan whose review call raised, the QC status of the patient
\* is YELLOW.
C13_FailedReviewMeansYellow ==
    ( \/ (last.op = "Generate" /\ last.result = "qc_failed")
      \/ /\ last.op = "RerunQC"
         /\ last.result = "failed"
         /\ get_current_plan(discharge_plans, last.patient) # 0 )
    => patients[last.patient].qc_status = "YELLOW"

\* C14: a Generate whose text-service call or section parse fails changes
\* no table and no session state (no new plan, the current plan stays
\* current, no section, no flag, the gates and the QC status as before);
\* ai_generation_done goes from false to true only in a Generate that stored
\* a new current plan with its six sections.
C14_FailedGenerateChangesNothing ==
    [][ /\ (last'.op = "Generate" /\ last'.result = "failed")
              => UNCHANGED << patients, workflow_state, inpatient_data,
                              discharge_plans, plan_sections, qc_flags,
                              finalization_data, session >>
        /\ \A p \in Patients :
              (~workflow_state[p].ai_generation_done
                  /\ workflow_state'[p].ai_generation_done)
              => /\ last'.op = "Generate"
                 /\ last'.patient = p
                 /\ last'.result \in {"ok", "qc_failed"}
                 /\ Len(discharge_plans') = Len(discharge_plans) + 1
                 /\ get_current_plan(discharge_plans', p) = Len(discharge_plans')
                 /\ DOMAIN get_plan_sections(plan_sections',
                                             get_current_plan(discharge_plans', p))
                       = { Title(section_names[i]) : i \in 1..Len(section_names) }
                 /\ Cardinality(DOMAIN get_plan_sections(plan_sections',
                                   get_current_plan(discharge_plans', p))) = 6
      ]_vars

\* a Generate that failed on a patient whose first plan is still current
C14_Witness ==
    /\ last.op = "Generate"
    /\ last.result = "failed"
    /\ Len(discharge_plans) = 1
    /\ discharge_plans[1].is_current
    /\ workflow_state[last.patient].ai_generation_done
    /\ patients[last.patient].qc_status = "RED"
    /\ Len(qc_flags) = 1

StickyGates ==
    { "hospital_summary_done", "ai_generation_done", "qc_analysis_done",
      "final_approval_done" }

\* C16: no step changes hospital_summary_done, ai_generation_done,
\* qc_analysis_done or final_approval_done of any patient from true to
\* false, in the workflow_state table or in a session's copy of it.
C16_GatesStayTrue ==
    [][ \A g \in StickyGates :
          /\ \A p \in Patients :
                workflow_state[p][g] => workflow_state'[p][g]
          /\ \A s \in Sessions :
                session[s].workflow[g] => session'[s].workflow[g] ]_vars

\* the clearance was withdrawn after the approval: the four other gates are
\* still true
C16_Witness ==
    /\ last.op \in {"RerunQC", "Generate"}
    /\ \A g \in StickyGates : workflow_state[last.patient][g]
    /\ ~workflow_state[last.patient].qc_clearance_done
    /\ Len(finalization_data) = 1

\* C17: qc_analysis_done of a patient becomes true only in a step that is a
\* Generate or a QC re-run of that patient whose review completed and whose
\* flags were stored, and every such step leaves it true.
C17_AnalysisDoneIffReviewCompleted ==
    [][ /\ \A p \in Patients :
              (~workflow_state[p].qc_analysis_done
                  /\ workflow_state'[p].qc_analysis_done)
                 => /\ last'.op \in {"Generate", "RerunQC"}
                    /\ last'.patient = p
                    /\ last'.result = "ok"
        /\ (last'.op \in {"Generate", "RerunQC"} /\ last'.result = "ok")
              => workflow_state'[last'.patient].qc_analysis_done ]_vars

\* the flag names no section, or a section the current plan does not have
TargetMissing(f) ==
    \/ qc_flags[f].target_section = ""
    \/ qc_flags[f].target_section \notin
          DOMAIN get_plan_sections(plan_sections,
                                   get_current_plan(discharge_plans, qc_flags[f].patient_id))

\* C18: an apply, on a patient with a plan, of a flag whose target_section
\* is empty or is not a section of the current plan leaves every section row
\* as it was, resolves the flag, and stores the QC status and
\* qc_clearance_done recomputed from the flags that remain unresolved.
C18_MissingTargetStillResolves ==
    [][ ( /\ last'.op = "ApplySuggestion"
          /\ last'.result # "no_plan"
          /\ TargetMissing(last'.flag) )
        => /\ plan_sections' = plan_sections
           /\ ~qc_flags[last'.flag].resolved
           /\ qc_flags'[last'.flag].resolved
           /\ patients'[last'.patient].qc_status
                 = Aggregate(qc_flags', get_qc_flags(qc_flags', last'.patient, FALSE))
           /\ workflow_state'[last'.patient].qc_clearance_done
                 = ~\E f \in get_qc_flags(qc_flags', last'.patient, FALSE) :
                       qc_flags'[f].severity \in {"RED", "YELLOW"} ]_vars

\* a flag that names "Summary", which no plan has, was applied: it is
\* resolved and no section holds the applied text
C18_Witness ==
    /\ last.op = "ApplySuggestion"
    /\ last.result = "no_target"
    /\ qc_flags[last.flag].target_section = "Summary"
    /\ qc_flags[last.flag].resolved
    /\ workflow_state[last.patient].qc_clearance_done
    /\ patients[last.patient].qc_status = "GREEN"

\* the rows of plan_sections that hold the section `name` of plan `plan`
RowsOf(plan, name) ==
    { i \in 1..Len(plan_sections) :
        /\ plan_sections[i].plan_id = plan
        /\ plan_sections[i].section_name = name }

\* C21: when an apply that wrote a section is followed at once by an apply
\* of the same content to the same section of the same plan, the second
\* apply leaves every section row as the first left it, and the plan still
\* has one row of that name.
C21_ApplyTwiceIsApplyOnce ==
    [][ ( /\ last.op = "ApplySuggestion" /\ last.result = "ok"
          /\ last'.op = "ApplySuggestion" /\ last'.result = "ok"
          /\ last'.patient = last.patient
          /\ qc_flags[last'.flag].target_section = qc_flags[last.flag].target_section
          /\ last'.content = last.content )
        => /\ plan_sections' = plan_sections
           /\ Cardinality(RowsOf(get_current_plan(discharge_plans, last.patient),
                                 qc_flags[last.flag].target_section)) = 1 ]_vars

\* two flags on the same section were applied one after the other with the
\* same content that carries a header line: the section holds the cleaned
\* content
C21_Witness ==
    /\ last.op = "ApplySuggestion"
    /\ last.result = "ok"
    /\ last.prev.flag # 0
    /\ last.prev.flag # last.flag
    /\ last.prev.content = last.content
    /\ last.content = Marker("MOBILITY") \o << "\n", "b", " " >>
    /\ qc_flags[last.prev.flag].target_section = qc_flags[last.flag].target_section
    /\ get_plan_sections(plan_sections, get_current_plan(discharge_plans, last.patient))
          [qc_flags[last.flag].target_section] = << "b" >>

\* the length of a header "===NAME===" of one of the six section names that
\* starts at position i, with the white space around the name and after the
\* header; 0 when none starts there
AnyHeaderLen(text, i) ==
    LET names == Whitespace \cup { section_names[k] : k \in 1..Len(section_names) }
    IN  IF text[i] # EQ THEN 0
        ELSE LET k == RunLen(text, i + 1, names)
             IN  IF k = 0 \/ i + 1 + k > Len(text) \/ text[i + 1 + k] # EQ
                 THEN 0
                 ELSE 2 + k + RunLen(text, i + 2 + k, Whitespace)

RECURSIVE WithoutHeaders(_, _)
WithoutHeaders(text, i) ==
    IF i > Len(text) THEN << >>
    ELSE IF AnyHeaderLen(text, i) > 0
         THEN WithoutHeaders(text, i + AnyHeaderLen(text, i))
         ELSE << text[i] >> \o WithoutHeaders(text, i + 1)

\* the supplied text without any header of a section, stripped
Sanitized(text) == Strip(WithoutHeaders(text, 1))

\* C22: an apply that writes leaves in the row of the flag's target section
\* of the current plan the supplied text without its "===NAME===" headers
\* and nothing else, and leaves every other section row, of this plan and of
\* any other, as it was.
C22_ApplyOverwritesTargetOnly ==
    [][ (last'.op = "ApplySuggestion" /\ last'.result = "ok")
        => LET plan == get_current_plan(discharge_plans, last'.patient)
               row  == SectionRow(plan_sections, plan,
                                  qc_flags[last'.flag].target_section)
           IN  /\ row # 0
               /\ Len(plan_sections') = Len(plan_sections)
               /\ plan_sections'[row].section_content = Sanitized(last'.content)
               /\ \A i \in 1..Len(plan_sections) :
                     i # row => plan_sections'[i] = plan_sections[i] ]_vars

\* C25: the target_section of every flag row is empty or is the name of one
\* of the six sections.
C25_FlagTargetsAreCanonical ==
    \A f \in 1..Len(qc_flags) :
        qc_flags[f].target_section
            \in {""} \cup { Title(section_names[i]) : i \in 1..Len(section_names) }

\* C26: the severity of every flag row is RED, YELLOW or GREEN.
C26_FlagSeveritiesAreThreeTiers ==
    \A f \in 1..Len(qc_flags) :
        qc_flags[f].severity \in {"RED", "YELLOW", "GREEN"}

\* C27: the section rows of every plan number at most six, each carries the
\* name of one of the six sections, and no two of them carry the same name.
C27_SixDistinctCanonicalSections ==
    \A plan \in 1..Len(discharge_plans) :
        LET rows == { i \in 1..Len(plan_sections) : plan_sections[i].plan_id = plan }
        IN  /\ Cardinality(rows) <= 6
            /\ \A i \in rows :
                  plan_sections[i].section_name
                     \in { Title(section_names[k]) : k \in 1..Len(section_names) }
            /\ \A i, j \in rows :
                  i # j => plan_sections[i].section_name # plan_sections[j].section_name

\* two plans were generated, a section was edited and a flag applied
C27_Witness ==
    /\ Len(discharge_plans) = 2
    /\ Len(plan_sections) = 12
    /\ edits = 1
    /\ last.op = "ApplySuggestion"
    /\ last.result = "ok"
    /\ \E i \in 1..Len(plan_sections) :
          plan_sections[i].section_content = << "b" >>

\* C28: after an apply or a QC re-run has recomputed them, the QC status and
\* qc_clearance_done depend only on the unresolved flags of the current
\* plan: the status is their aggregate and the gate says that none of them
\* is RED or YELLOW, whatever flags of earlier plans are unresolved.
C28_OnlyCurrentPlanFlagsCount ==
    ( \/ (last.op = "ApplySuggestion" /\ last.result \in Committed)
      \/ (last.op = "RerunQC" /\ last.result = "ok") )
    => /\ patients[last.patient].qc_status
             = Aggregate(qc_flags, UnresolvedOfCurrentPlan(last.patient))
       /\ workflow_state[last.patient].qc_clearance_done
             = ~\E f \in UnresolvedOfCurrentPlan(last.patient) :
                   qc_flags[f].severity \in {"RED", "YELLOW"}

\* C29: hospital_summary_done of a patient goes from false to true only in a
\* save of the hospital summary of that patient that stores a text with a
\* character that is not white space; every such save leaves it true, and a
\* save of an empty or white-space text leaves it as it was.
C29_SummaryGateSetByNonBlankSave ==
    [][ /\ \A p \in Patients :
              (~workflow_state[p].hospital_summary_done
                  /\ workflow_state'[p].hospital_summary_done)
                 => /\ last'.op = "SaveHospitalSummary"
                    /\ last'.patient = p
                    /\ Strip(inpatient_data'[p]) # << >>
        /\ last'.op = "SaveHospitalSummary"
              => workflow_state'[last'.patient].hospital_summary_done
                    = ( \/ workflow_state[last'.patient].hospital_summary_done
                        \/ Strip(inpatient_data'[last'.patient]) # << >> ) ]_vars

\* a summary with text was saved; the gate is set
C29_Witness ==
    /\ last.op = "SaveHospitalSummary"
    /\ last.result = "ok"
    /\ Strip(inpatient_data[last.patient]) # << >>
    /\ workflow_state[last.patient].hospital_summary_done
    /\ session["s1"].workflow.hospital_summary_done

\* C32: a re-run of the QC Review tab on a patient with a plan, whose review
\* call raises, writes nothing: the flags (resolved or not) are the same
\* rows, none is added, and the patient's QC status and the gates are as
\* before, in the database and in the session.
C32_FailedRerunChangesNothing ==
    [][ ( /\ last'.op = "RerunQC"
          /\ last'.result = "failed"
          /\ get_current_plan(discharge_plans, last'.patient) # 0 )
        => /\ qc_flags' = qc_flags
           /\ get_qc_flags(qc_flags', last'.patient, FALSE)
                = get_qc_flags(qc_flags, last'.patient, FALSE)
           /\ patients' = patients
           /\ workflow_state' = workflow_state
           /\ session' = session
           /\ UNCHANGED << discharge_plans, plan_sections >> ]_vars

\* a failed re-run on a plan with an unresolved RED flag, the status RED
C32_Witness ==
    /\ last.op = "RerunQC" /\ last.result = "failed"
    /\ get_current_plan(discharge_plans, last.patient) # 0
    /\ \E f \in UnresolvedOf(last.patient) : qc_flags[f].severity = "RED"
    /\ patients[last.patient].qc_status = "RED"
    /\ workflow_state[last.patient].qc_analysis_done

\* C34: in the state a completed Finalize leaves, where final_approval_done
\* has just been set, qc_clearance_done is true.
C34_FinalizeOnlyWithClearance ==
    (last.op = "Finalize" /\ last.result = "ok")
       => /\ workflow_state[last.patient].final_approval_done
          /\ workflow_state[last.patient].qc_clearance_done

\* C35: in the state a completed Finalize leaves, the patient has no
\* unresolved RED or YELLOW flag that was raised against the current plan.
C35_FinalizeOnlyWithoutCriticalFlags ==
    (last.op = "Finalize" /\ last.result = "ok")
       => ~\E f \in UnresolvedOfCurrentPlan(last.patient) :
              qc_flags[f].severity \in {"RED", "YELLOW"}

\* C36: in every reachable state, a patient whose final_approval_done is
\* true has the QC status GREEN.
C36_FinalizedMeansGreen ==
    \A p \in Patients :
        workflow_state[p].final_approval_done => patients[p].qc_status = "GREEN"

\* C37: in every reachable state, a patient whose final_approval_done is
\* true has a plan, one of them current.
C37_FinalizedMeansPlanExists ==
    \A p \in Patients :
        workflow_state[p].final_approval_done
           => /\ \E i \in 1..Len(discharge_plans) : discharge_plans[i].patient_id = p
              /\ get_current_plan(discharge_plans, p) # 0

\* a Finalize has completed for the patient
C37_Witness ==
    /\ last.op = "Finalize" /\ last.result = "ok"
    /\ workflow_state[last.patient].final_approval_done
    /\ patients[last.patient].wf_status = "Finalized"
    /\ get_current_plan(discharge_plans, last.patient) # 0

\* C38: an apply writes the fix of a flag only into the plan the flag was
\* raised against: the sections of every other plan are as before, those of
\* a plan generated after the flag was raised among them.
C38_ApplyWritesOnlyTheFlagsPlan ==
    [][ (last'.op = "ApplySuggestion" /\ last'.result \in Committed)
        => \A plan \in 1..Len(discharge_plans) :
              plan # qc_flags[last'.flag].plan_id
                 => get_plan_sections(plan_sections', plan)
                      = get_plan_sections(plan_sections, plan) ]_vars

\* C40: a save in the Plan Editor changes the content of one section of the
\* current plan and nothing else: the other sections and the other plans,
\* every flag, the QC status and the five gates are as before, in the
\* database and in the session; so a Finalize that follows an edit made
\* while the status is GREEN completes, with no QC run in between.
C40_EditChangesOneSectionOnly ==
    [][ /\ last'.op = "SaveSection"
           => LET plan == get_current_plan(discharge_plans, last'.patient)
                  old  == get_plan_sections(plan_sections, plan)
                  new  == get_plan_sections(plan_sections', plan)
              IN  /\ plan # 0
                  /\ \E name \in { Title(section_names[i]) : i \in 1..Len(section_names) } :
                        /\ DOMAIN new = DOMAIN old \cup {name}
                        /\ \A n \in DOMAIN old \ {name} : new[n] = old[n]
                  /\ \A other \in 1..Len(discharge_plans) :
                        other # plan
                           => get_plan_sections(plan_sections', other)
                                = get_plan_sections(plan_sections, other)
                  /\ UNCHANGED << qc_flags, patients, workflow_state, session,
                                  discharge_plans, inpatient_data,
                                  finalization_data >>
        /\ ( /\ last.op = "SaveSection"
             /\ last'.op = "Finalize"
             /\ patients[last.patient].qc_status = "GREEN" )
           => /\ last'.result = "ok"
              /\ workflow_state'[last'.patient].final_approval_done ]_vars

\* a plan whose only QC result was GREEN and empty, edited once and
\* finalized with the edited text in it
C40_Witness ==
    /\ last.op = "Finalize" /\ last.result = "ok"
    /\ edits = 1
    /\ qc_flags = << >>
    /\ Len(discharge_plans) = 1
    /\ workflow_state[last.patient].final_approval_done
    /\ ~workflow_state[last.patient].qc_clearance_done
    /\ get_plan_sections(plan_sections, 1)["Diet"] = << "b" >>

-----------------------------------------------------------------------------
(* _parse_sections on its own: a response is drawn, then parsed            *)

FillTokens == {" ", "a"}
Fills == SeqsUpTo(FillTokens, MaxFill)

\* the orders in which a response can bring its markers: the canonical one,
\* two others, and one that repeats a marker
Orders ==
    { << 1, 2, 3, 4, 5, 6 >>, << 6, 5, 4, 3, 2, 1 >>, << 2, 1, 3, 4, 6, 5 >>,
      << 1, 2, 1, 3, 4, 5, 6 >> }

\* what a response can open with: nothing, prose, a stray "==="
Preambles == { << >>, << "a" >>, << EQ >> }

\* The response that brings the markers of `present`, in the order `order`;
\* `pre` comes first, the marker in slot k is followed by `special` and
\* every other marker by `common`.
RECURSIVE BuildFrom(_, _, _, _, _, _)
BuildFrom(order, present, common, special, k, j) ==
    IF j > Len(order) THEN << >>
    ELSE (IF order[j] \in present
          THEN Marker(section_names[order[j]])
                 \o (IF j = k THEN special ELSE common)
          ELSE << >>)
         \o BuildFrom(order, present, common, special, k, j + 1)
BuildText(pre, order, present, common, special, k) ==
    pre \o BuildFrom(order, present, common, special, k, 1)

InitParse ==
    /\ \E pre \in Preambles, order \in Orders,
          present \in SUBSET (1..Len(section_names)),
          common \in { << >>, << "a" >> }, special \in Fills,
          k \in 1..Len(section_names) :
          response_text = BuildText(pre, order, present, common, special, k)
    /\ parsed = NotParsed
    /\ retry = NotCalled
    /\ review = NotReviewed
    /\ dialog = NoDialogs
    /\ thread = NoThreads
    /\ FreshApp

\* sections = self._parse_sections(response_text)
ParseResponse ==
    /\ ~parsed.done
    /\ parsed' = [ done     |-> TRUE,
                   raised   |-> parse_sections(response_text).raised,
                   sections |-> parse_sections(response_text).sections ]
    /\ UNCHANGED << response_text, retry, review, dialog, thread, appVars >>

NextParse == ParseResponse

SpecParse == InitParse /\ [][NextParse]_vars

-----------------------------------------------------------------------------
(* _call_openai_with_retry on its own                                      *)

\* max_retries: int = 2
DefaultMaxRetries == 2

\* what one round trip can raise, and what it can return
TransportErrors == {"timeout", "rate_limit"}
ResponseTexts == { << >>, << "a" >> }

\* a variant of WaitTime: the backoff grows linearly
WaitTimeLinear(attempt) == (attempt + 1) * 2

\* wait_time = (2 ** attempt) * 2
WaitTime(attempt) == (2 ^ attempt) * 2

\* the call is entered with some max_retries; attempt is the loop variable
InitRetry ==
    /\ \E n \in 0..MaxRetriesTried :
          retry = [NotCalled EXCEPT !.pc = "calling", !.max_retries = n]
    /\ response_text = << >>
    /\ parsed = NotParsed
    /\ review = NotReviewed
    /\ dialog = NoDialogs
    /\ thread = NoThreads
    /\ FreshApp

\* the round trip returns: return response.choices[0].message.content
CallReturns(text) ==
    /\ retry.pc = "calling"
    /\ retry' = [retry EXCEPT !.pc = "returned",
                              !.calls = @ + 1,
                              !.result = text]
    /\ UNCHANGED << response_text, parsed, review, dialog, thread, appVars >>

\* a variant of CallRaises: the bound of the loop is off by one
CallRaisesOnceMore(e) ==
    /\ retry.pc = "calling"
    /\ retry' =
         IF retry.attempt <= retry.max_retries
         THEN [retry EXCEPT !.pc = "sleeping",
                            !.calls = @ + 1,
                            !.errors = Append(@, e)]
         ELSE [retry EXCEPT !.pc = "raised",
                            !.calls = @ + 1,
                            !.errors = Append(@, e),
                            !.cause = e]
    /\ UNCHANGED << response_text, parsed, review, dialog, thread, appVars >>

\* the round trip raises e: back off and go round again, or give up
CallRaises(e) ==
    /\ retry.pc = "calling"
    /\ retry' =
         IF retry.attempt < retry.max_retries
         THEN [retry EXCEPT !.pc = "sleeping",
                            !.calls = @ + 1,
                            !.errors = Append(@, e)]
         ELSE [retry EXCEPT !.pc = "raised",
                            !.calls = @ + 1,
                            !.errors = Append(@, e),
                            !.cause = e]
    /\ UNCHANGED << response_text, parsed, review, dialog, thread, appVars >>

\* time.sleep(wait_time), then the next iteration of the loop
Sleep ==
    /\ retry.pc = "sleeping"
    /\ retry' = [retry EXCEPT !.pc = "calling",
                              !.waits = Append(@, WaitTime(retry.attempt)),
                              !.attempt = @ + 1]
    /\ UNCHANGED << response_text, parsed, review, dialog, thread, appVars >>

NextRetry ==
    \/ \E text \in ResponseTexts : CallReturns(text)
    \/ \E e \in TransportErrors : CallRaises(e)
    \/ Sleep

SpecRetry == InitRetry /\ [][NextRetry]_vars

-----------------------------------------------------------------------------
(* review_discharge_plan on its own: the call raises or returns, and the   *)
(* response is turned into a list of flags.                                *)
(* Tokens of a QC response: a fence of three backticks is one token, a tag  *)
(* written right after it is one token ("json", "js"), a JSON document is   *)
(* one token, "\n" and "a" are one character each.                         *)

MaxReviewLen == 5      \* tokens of a QC response

\* the three backticks that open or close a code block
FENCE == "<fence>"
JsonDocs == { "[]", "[R]", "{}" }
OneChar == { "\n", " ", "a" }
ReviewTokens == { FENCE, "json", "js", "\n", "a" } \cup JsonDocs

\* str.find(pat, start)
FindFrom(text, pat, start) ==
    IF \E i \in start..Len(text) : Occurs(text, pat, i)
    THEN CHOOSE i \in start..Len(text) :
            /\ Occurs(text, pat, i)
            /\ \A j \in start..(i - 1) : ~Occurs(text, pat, j)
    ELSE -1

\* text[:-1]: the last character goes; what is left of a longer token is a
\* fragment, "?"
DropLastChar(text) ==
    IF text = << >> THEN << >>
    ELSE IF text[Len(text)] \in OneChar
         THEN SubSeq(text, 1, Len(text) - 1)
         ELSE SubSeq(text, 1, Len(text) - 1) \o << "?" >>

\* text[start:end] where end is what find returned, -1 included
SliceFound(text, start, end) ==
    IF end = -1
    THEN Slice(DropLastChar(text), start, Len(text))
    ELSE Slice(text, start, end)

\* the if / elif / else that picks json_text
JsonText(text) ==
    IF Find(text, << FENCE, "json" >>) # -1
    THEN LET json_start == Find(text, << FENCE, "json" >>) + 2
             json_end   == FindFrom(text, << FENCE >>, json_start)
         IN  Strip(SliceFound(text, json_start, json_end))
    ELSE IF Find(text, << FENCE >>) # -1
    THEN LET json_start == Find(text, << FENCE >>) + 1
             json_end   == FindFrom(text, << FENCE >>, json_start)
         IN  Strip(SliceFound(text, json_start, json_end))
    ELSE Strip(text)

\* the value of a JSON document
JsonValue(doc) ==
    CASE doc = "[]"  -> [is_list |-> TRUE,  items |-> << >>]
      [] doc = "[R]" -> [is_list |-> TRUE,
                         items |-> << [severity |-> "RED",
                                       target_section |-> "Warning Signs"] >>]
      [] doc = "{}"  -> [is_list |-> FALSE, items |-> << >>]

\* json.loads(json_text): one document, white space around it allowed
json_loads(json_text) ==
    IF Len(Strip(json_text)) = 1 /\ Strip(json_text)[1] \in JsonDocs
    THEN [raised |-> FALSE, value |-> JsonValue(Strip(json_text)[1])]
    ELSE [raised |-> TRUE,  value |-> [is_list |-> FALSE, items |-> << >>]]

\* try: ... flags = json.loads(json_text);
\*          return flags if isinstance(flags, list) else []
\* except Exception: return []
ExtractFlags(text) ==
    LET loaded == json_loads(JsonText(text))
    IN  IF loaded.raised THEN << >>
        ELSE IF loaded.value.is_list THEN loaded.value.items ELSE << >>

\* _call_openai_with_retry raised, returned None as the content, or text
InitReview ==
    /\ \/ review = [NotReviewed EXCEPT !.pc = "called", !.call_raised = TRUE]
       \/ review = [NotReviewed EXCEPT !.pc = "called", !.is_none = TRUE]
       \/ \E t \in SeqsUpTo(ReviewTokens, MaxReviewLen) :
             review = [NotReviewed EXCEPT !.pc = "called", !.text = t]
    /\ FreshApp
    /\ response_text = << >>
    /\ parsed = NotParsed
    /\ retry = NotCalled
    /\ dialog = NoDialogs
    /\ thread = NoThreads

\* the call raised: nothing catches it
ReviewRaises ==
    /\ review.pc = "called"
    /\ review.call_raised
    /\ review' = [review EXCEPT !.pc = "done", !.raised = TRUE]
    /\ UNCHANGED << response_text, parsed, retry, dialog, thread, appVars >>

\* the call returned: the test (fence in None) raises TypeError inside the try
ReviewReturns ==
    /\ review.pc = "called"
    /\ ~review.call_raised
    /\ review' = [review EXCEPT
                    !.pc = "done",
                    !.flags = IF review.is_none THEN << >>
                              ELSE ExtractFlags(review.text)]
    /\ UNCHANGED << response_text, parsed, retry, dialog, thread, appVars >>

NextReview == ReviewRaises \/ ReviewReturns

SpecReview == InitReview /\ [][NextReview]_vars

-----------------------------------------------------------------------------
(* Properties of the parser, checked under SpecParse                       *)

CanonicalNames ==
    { "Medications", "Warning Signs", "Mobility", "Diet", "Follow-Ups",
      "Teach-Back" }

MarkerAbsent(text, i) == Find(text, Marker(section_names[i])) = -1

\* C8: whatever the response text (any subset of the six markers, in any
\* order, possibly none), the parse raises nothing and returns a map with
\* exactly the six canonical keys, and every section whose marker is absent
\* holds the placeholder that names it.
C8_ParseTotalSixEntries ==
    parsed.done =>
        /\ ~parsed.raised
        /\ DOMAIN parsed.sections = CanonicalNames
        /\ Cardinality(DOMAIN parsed.sections) = 6
        /\ \A i \in 1..Len(section_names) :
              MarkerAbsent(response_text, i) =>
                 parsed.sections[Title(section_names[i])]
                    = Placeholder(section_names[i])

\* a parsed response with some markers present and others absent
C8_Witness ==
    /\ parsed.done
    /\ MarkerAbsent(response_text, 4)
    /\ MarkerAbsent(response_text, 6)
    /\ ~MarkerAbsent(response_text, 1)
    /\ parsed.sections["Diet"] = << "[Diet content not generated]" >>
    /\ parsed.sections["Medications"] = << "a" >>

\* every marker occurs, and the first occurrences come in the canonical order
InCanonicalOrder(text) ==
    /\ \A i \in 1..Len(section_names) : ~MarkerAbsent(text, i)
    /\ \A i \in 1..(Len(section_names) - 1) :
          Find(text, Marker(section_names[i]))
             < Find(text, Marker(section_names[i + 1]))

\* the tokens strictly between the marker of section i and the marker that
\* follows it (the end of the text for the last section)
Between(text, i) ==
    LET from == Find(text, Marker(section_names[i])) + 3
        to   == IF i < Len(section_names)
                THEN Find(text, Marker(section_names[i + 1]))
                ELSE Len(text)
    IN  SubSeq(text, from + 1, to)

\* C9: for a response with all six markers in the canonical order, the map
\* has exactly six entries and the value of each section is the text between
\* its marker and the following marker (the end of the text for Teach-Back),
\* leading and trailing whitespace removed.
C9_OrderedMarkersExactContent ==
    (parsed.done /\ InCanonicalOrder(response_text)) =>
        /\ ~parsed.raised
        /\ Cardinality(DOMAIN parsed.sections) = 6
        /\ \A i \in 1..Len(section_names) :
              parsed.sections[Title(section_names[i])]
                 = Strip(Between(response_text, i))

\* an ordered response parsed, one section of which had whitespace to trim
C9_Witness ==
    /\ parsed.done
    /\ InCanonicalOrder(response_text)
    /\ Between(response_text, 2) = << " ", "a" >>
    /\ parsed.sections["Warning Signs"] = << "a" >>
    /\ parsed.sections["Teach-Back"] = << "a" >>

\* the markers that occur in the text occur in the canonical order
PresentInCanonicalOrder(text) ==
    \A i, j \in 1..Len(section_names) :
        (i < j /\ ~MarkerAbsent(text, i) /\ ~MarkerAbsent(text, j))
           => Find(text, Marker(section_names[i])) < Find(text, Marker(section_names[j]))

\* the position of the first marker of a later section that occurs after
\* the marker of section i, the end of the text when there is none
NextMarkerPos(text, i) ==
    LET later == { Find(text, Marker(section_names[j])) :
                     j \in { k \in (i + 1)..Len(section_names) :
                               ~MarkerAbsent(text, k) } }
    IN  IF later = {} THEN Len(text)
        ELSE CHOOSE x \in later : \A y \in later : x <= y

\* C30: for a response whose markers come in the canonical order, some of
\* them possibly missing, the value of every section whose marker is present
\* is the text from just after its marker up to the next marker that is
\* present (the end of the text when none follows), white space trimmed; it
\* holds the marker of no later section.
C30_ContentStopsAtNextPresentMarker ==
    (parsed.done /\ PresentInCanonicalOrder(response_text)) =>
        \A i \in 1..Len(section_names) :
            ~MarkerAbsent(response_text, i) =>
               /\ parsed.sections[Title(section_names[i])]
                    = Strip(Slice(response_text,
                                  Find(response_text, Marker(section_names[i])) + 3,
                                  NextMarkerPos(response_text, i)))
               /\ \A j \in (i + 1)..Len(section_names) :
                     Find(parsed.sections[Title(section_names[i])],
                          Marker(section_names[j])) = -1

-----------------------------------------------------------------------------
(* Properties of the retry loop, checked under SpecRetry                   *)

\* C10: a call configured with N retries makes at most N + 1 attempts; it
\* makes no attempt after the first successful one and returns the text of
\* that attempt; it raises only when all N + 1 attempts failed, and the error
\* then carries the last underlying failure and nothing is returned.
C10_RetryBoundedAttempts ==
    /\ retry.calls <= retry.max_retries + 1
    /\ retry.calls - Len(retry.errors) \in {0, 1}
    /\ retry.calls - Len(retry.errors) = 1 <=> retry.pc = "returned"
    /\ retry.pc = "raised" =>
          /\ retry.calls = retry.max_retries + 1
          /\ Len(retry.errors) = retry.max_retries + 1
          /\ retry.cause = retry.errors[Len(retry.errors)]
          /\ retry.result = NotCalled.result
    /\ retry.pc \in {"returned", "raised"} => ~ENABLED NextRetry
    /\ retry.pc \in {"calling", "sleeping"} => ENABLED NextRetry

\* the default configuration exhausted: three attempts, the last error kept
C10_Witness ==
    /\ retry.pc = "raised"
    /\ retry.max_retries = DefaultMaxRetries
    /\ retry.calls = 3
    /\ retry.errors = << "timeout", "timeout", "rate_limit" >>
    /\ retry.cause = "rate_limit"
    /\ retry.waits = << 2, 4 >>

\* C11: exactly one backoff wait precedes each retry and none follows the
\* final attempt; the wait after the k-th failed attempt is 2 * 2^(k-1)
\* seconds; with max_retries 2, two failures and then a success make exactly
\* 3 attempts, waits of 2 s and 4 s, and the call returns.
C11_BackoffSchedule ==
    /\ \A k \in 1..Len(retry.waits) : retry.waits[k] = 2 * 2 ^ (k - 1)
    /\ retry.pc = "calling" => Len(retry.waits) = retry.calls
    /\ retry.pc \in {"sleeping", "returned", "raised"}
          => Len(retry.waits) = retry.calls - 1
    /\ Len(retry.waits) = retry.attempt
    /\ (retry.pc = "returned" /\ retry.max_retries = 2 /\ Len(retry.errors) = 2)
          => (retry.calls = 3 /\ retry.waits = << 2, 4 >>)
    /\ (retry.max_retries = 2 /\ Len(retry.errors) = 2)
          => retry.pc \in {"sleeping", "calling", "returned"}

\* two failures, then the third attempt returns its text
C11_Witness ==
    /\ retry.pc = "returned"
    /\ retry.max_retries = DefaultMaxRetries
    /\ Len(retry.errors) = 2
    /\ retry.calls = 3
    /\ retry.waits = << 2, 4 >>
    /\ retry.result = << "a" >>

-----------------------------------------------------------------------------
(* Properties of the QC review, checked under SpecReview                   *)

\* the list a JSON document stands for: its items, nothing if it is no array
ArrayOf(doc) == IF JsonValue(doc).is_list THEN JsonValue(doc).items ELSE << >>

\* the response is the document alone, white space around it apart
BareJson(text, doc) == Strip(text) = << doc >>

\* the response holds one code block: two fences, the first followed by a
\* tag of `tags` or by none, and between them the document alone
FencedJson(text, tags, doc) ==
    \E i, j \in 1..Len(text) :
        /\ i < j
        /\ \A k \in 1..Len(text) : text[k] = FENCE <=> k \in {i, j}
        /\ LET inner == SubSeq(text, i + 1, j - 1)
           IN  \/ Strip(inner) = << doc >>
               \/ /\ inner # << >>
                  /\ Head(inner) \in tags
                  /\ Strip(Tail(inner)) = << doc >>

\* what the review does with a response, when blocks opened with a tag of
\* `tags` or with none are to be read
ReviewContract(tags) ==
    review.pc = "done" =>
        /\ review.raised <=> review.call_raised
        /\ review.raised => review.flags = << >>
        /\ (~review.call_raised /\ review.is_none) => review.flags = << >>
        /\ (~review.call_raised /\ ~review.is_none) =>
              /\ \A doc \in JsonDocs :
                    (BareJson(review.text, doc) \/ FencedJson(review.text, tags, doc))
                       => review.flags = ArrayOf(doc)
              /\ review.flags # << >> =>
                    \E k \in 1..Len(review.text) :
                       /\ review.text[k] \in JsonDocs
                       /\ review.flags = ArrayOf(review.text[k])

\* C12 as stated: the review raises exactly when the call raised; it
\* returns the array of a response that is bare JSON or JSON in a code block
\* opened with any language tag or with none, and the empty list when the
\* response holds no JSON array.
C12_ReviewAnyTag == ReviewContract({"json", "js"})

-----------------------------------------------------------------------------
(* create_discharge_plan on its own: plans are created for either patient, *)
(* one call after the other                                                *)

InitPlans ==
    /\ FreshApp
    /\ response_text = << >>
    /\ parsed = NotParsed
    /\ retry = NotCalled
    /\ review = NotReviewed
    /\ dialog = NoDialogs
    /\ thread = NoThreads

CreatePlan(p) ==
    /\ Len(discharge_plans) < MaxPlanRows
    /\ discharge_plans' = create_discharge_plan(discharge_plans, p)
    /\ last' = Done("CreatePlan", p, "ok")
    /\ UNCHANGED << patients, workflow_state, inpatient_data, plan_sections,
                    qc_flags, finalization_data, session, edits,
                    response_text, parsed, retry, review, dialog, thread >>

NextPlans == \E p \in Patients : CreatePlan(p)

SpecPlans == InitPlans /\ [][NextPlans]_vars

PlansOf(p) == { i \in 1..Len(discharge_plans) : discharge_plans[i].patient_id = p }

\* C15: once a patient has a plan, exactly one of the patient's plans is
\* current and it is the one created last; the versions of the patient's
\* plans increase strictly in creation order; a creation removes no row and
\* changes nothing but is_current in the rows that were there.
C15_OneCurrentPlanVersionsIncrease ==
    /\ [](\A p \in Patients :
            PlansOf(p) # {} =>
               /\ Cardinality({ i \in PlansOf(p) : discharge_plans[i].is_current }) = 1
               /\ \A i \in PlansOf(p) :
                     discharge_plans[i].is_current <=> (\A j \in PlansOf(p) : j <= i)
               /\ get_current_plan(discharge_plans, p) \in PlansOf(p)
               /\ \A j \in PlansOf(p) : j <= get_current_plan(discharge_plans, p)
               /\ \A i, j \in PlansOf(p) :
                     i < j => discharge_plans[i].version < discharge_plans[j].version)
    /\ [][ /\ Len(discharge_plans') >= Len(discharge_plans)
           /\ \A i \in 1..Len(discharge_plans) :
                 /\ discharge_plans'[i].patient_id = discharge_plans[i].patient_id
                 /\ discharge_plans'[i].version = discharge_plans[i].version ]_vars

\* three plans of one patient with a plan of the other in between
C15_Witness ==
    /\ Len(discharge_plans) = 4
    /\ PlansOf("p1") = {1, 2, 4}
    /\ discharge_plans[4].version = 3
    /\ discharge_plans[4].is_current
    /\ ~discharge_plans[1].is_current
    /\ ~discharge_plans[2].is_current
    /\ discharge_plans[3].is_current
    /\ discharge_plans[3].version = 1

-----------------------------------------------------------------------------
(* The "Preview QC Suggestion" dialog of the QC tab: an accepted flag is   *)
(* expanded by a second call of the text service, and the text is shown    *)
(* for editing before it is inserted or the dialog is cancelled            *)

\* what the text service can return for the expansion prompt: plain text,
\* text in blank lines, a fenced block, text under a title line with a
\* colon, with the patient's first name or with a markdown "#", a fence
\* pair on one line, nothing
ExpandResponses ==
    { << "b" >>,
      << "\n", "b", "\n" >>,
      << FENCE, "\n", "b", "\n", FENCE >>,
      << "Summary", ":", "\n", "b" >>,
      << "Ann", "\n", "b" >>,
      << "#", "Summary", "\n", "b" >>,
      << FENCE, "b", FENCE >>,
      << >> }

\* what _call_openai_with_retry does for the expansion prompt
ExpandOutcomes ==
    { [raised |-> FALSE, text |-> t] : t \in ExpandResponses }
        \cup { [raised |-> TRUE, text |-> << >>] }

LineBreaks(text) == { i \in 1..Len(text) : text[i] = "\n" }

\* "\n".join(lines[1:-1]) of lines = text.split("\n")
InnerLines(text) ==
    LET nl == LineBreaks(text)
    IN  IF Cardinality(nl) < 2 THEN << >>
        ELSE LET first == CHOOSE i \in nl : \A j \in nl : i <= j
                 final == CHOOSE i \in nl : \A j \in nl : j <= i
             IN  SubSeq(text, first + 1, final - 1)

\* lines[0] of lines = text.split("\n")
FirstLine(text) ==
    LET nl == LineBreaks(text)
    IN  IF nl = {} THEN text
        ELSE SubSeq(text, 1, (CHOOSE i \in nl : \A j \in nl : i <= j) - 1)

\* "\n".join(lines[1:])
LaterLines(text) ==
    LET nl == LineBreaks(text)
    IN  IF nl = {} THEN << >>
        ELSE SubSeq(text, (CHOOSE i \in nl : \A j \in nl : i <= j) + 1, Len(text))

\* the test on first_line; a line of the model is shorter than 60 characters
LooksLikeTitle(first_line) ==
    \/ \E i \in 1..Len(first_line) : first_line[i] = "Ann"
    \/ first_line # << >> /\ first_line[Len(first_line)] = ":"
    \/ first_line # << >> /\ first_line[1] = "#"

\* the clean-up of expand_qc_suggestion
ExpandClean(text) ==
    LET stripped == Strip(text)
        unfenced == IF stripped # << >> /\ stripped[1] = FENCE
                    THEN Strip(InnerLines(stripped))
                    ELSE stripped
    IN  IF LooksLikeTitle(Strip(FirstLine(unfenced)))
        THEN Strip(LaterLines(unfenced))
        ELSE unfenced

\* the flags whose dialog the QC tab can draw: unresolved flags of the
\* patient with show_dialog_ set.  The tab takes the first in the order of
\* created_at, which does not order flags created within the same second.
DialogFlags(s) ==
    { f \in get_qc_flags(qc_flags, Selected(s), FALSE) : dialog[f].show }

IdleDialog == UNCHANGED << response_text, parsed, retry, review, thread >>

\* QC tab: "Accept Suggestion" on an unresolved flag
AcceptSuggestion(s, f) ==
    /\ f \in get_qc_flags(qc_flags, Selected(s), FALSE)
    /\ dialog' = [dialog EXCEPT ![f].show = TRUE]
    /\ last' = Done("AcceptSuggestion", Selected(s), "ok")
    /\ UNCHANGED << dbVars, session, edits >>

\* a variant of ExpandSuggestion: the expanded text is written into the
\* target section as soon as it arrives
ExpandSuggestionCommits(s, f, outcome) ==
    LET p            == Selected(s)
        current_plan == get_current_plan(discharge_plans, p)
        failed       == current_plan = 0 \/ outcome.raised
    IN  /\ f \in DialogFlags(s)
        /\ dialog[f].expanded_content.is_none
        /\ ~dialog[f].expansion_error
        /\ ~dialog[f].generation_started
        /\ dialog' =
             IF failed
             THEN [dialog EXCEPT ![f].generation_started = TRUE,
                                 ![f].expansion_error = TRUE]
             ELSE [dialog EXCEPT ![f].generation_started = TRUE,
                                 ![f].expanded_content =
                                     [is_none |-> FALSE,
                                      text |-> ExpandClean(outcome.text)]]
        /\ plan_sections' =
             IF failed THEN plan_sections
             ELSE update_plan_section(plan_sections, current_plan,
                                      qc_flags[f].target_section,
                                      ExpandClean(outcome.text))
        /\ last' = Done("Expand", p, IF failed THEN "failed" ELSE "ok")
        /\ UNCHANGED << patients, workflow_state, inpatient_data, discharge_plans,
                        qc_flags, finalization_data, session, edits >>

\* the dialog drawn for the first time: expand_qc_suggestion is called and
\* its text, or the failure, is kept in the session
ExpandSuggestion(s, f, outcome) ==
    LET p            == Selected(s)
        current_plan == get_current_plan(discharge_plans, p)
        failed       == current_plan = 0 \/ outcome.raised
    IN  /\ f \in DialogFlags(s)
        /\ dialog[f].expanded_content.is_none
        /\ ~dialog[f].expansion_error
        /\ ~dialog[f].generation_started
        /\ dialog' =
             IF failed
             THEN [dialog EXCEPT ![f].generation_started = TRUE,
                                 ![f].expansion_error = TRUE]
             ELSE [dialog EXCEPT ![f].generation_started = TRUE,
                                 ![f].expanded_content =
                                     [is_none |-> FALSE,
                                      text |-> ExpandClean(outcome.text)]]
        /\ last' = Done("Expand", p, IF failed THEN "failed" ELSE "ok")
        /\ UNCHANGED << dbVars, session, edits >>

\* _clear_expansion_state(flag.id); show_dialog_ = False
ClearedDialog(f) == [dialog EXCEPT ![f] = NoDialog]

\* "Insert into Plan": the preview, as generated or as edited, is applied
InsertExpanded(s, f, edited_content) ==
    /\ f \in DialogFlags(s)
    /\ ~dialog[f].expansion_error
    /\ ~dialog[f].expanded_content.is_none
    /\ dialog[f].expanded_content.text # << >>
    /\ ApplySuggestion(s, f, edited_content)
    /\ dialog' = ClearedDialog(f)

\* "Insert Fallback", offered when the expansion failed
InsertFallback(s, f, fallback_content) ==
    /\ f \in DialogFlags(s)
    /\ dialog[f].expansion_error
    /\ ApplySuggestion(s, f, fallback_content)
    /\ dialog' = ClearedDialog(f)

\* "Cancel", in the preview or in the fallback
CancelDialog(s, f) ==
    /\ f \in DialogFlags(s)
    /\ \/ dialog[f].expansion_error
       \/ ~dialog[f].expanded_content.is_none
            /\ dialog[f].expanded_content.text # << >>
    /\ dialog' = ClearedDialog(f)
    /\ last' = Done("Cancel", Selected(s), "ok")
    /\ UNCHANGED << dbVars, session, edits >>

NextDialog ==
    \E s \in {"s1"} :
        \/ \E r \in ServiceOutcomes, qc \in QCOutcomes :
              Generate(s, r, qc) /\ IdleDialog /\ UNCHANGED dialog
        \/ \E qc \in QCOutcomes : RerunQC(s, qc) /\ IdleDialog /\ UNCHANGED dialog
        \/ \E f \in 1..Len(qc_flags) : AcceptSuggestion(s, f) /\ IdleDialog
        \/ \E f \in 1..Len(qc_flags), outcome \in ExpandOutcomes :
              ExpandSuggestion(s, f, outcome) /\ IdleDialog
        \/ \E f \in 1..Len(qc_flags) :
              \E c \in {dialog[f].expanded_content.text} \cup ApplyContents :
                 InsertExpanded(s, f, c) /\ IdleDialog
        \/ \E f \in 1..Len(qc_flags), c \in ApplyContents :
              InsertFallback(s, f, c) /\ IdleDialog
        \/ \E f \in 1..Len(qc_flags) : CancelDialog(s, f) /\ IdleDialog

SpecDialog == Init /\ [][NextDialog]_vars

\* C19: a step that accepts a suggestion, runs its expansion or cancels the
\* dialog changes no table and no session copy of the QC status or of a
\* gate; the content of a stored section changes only in a committed apply
\* of a flag whose expansion had run, and that apply empties the dialog.
C19_ExpansionChangesNothingStored ==
    [][ /\ last'.op \in {"AcceptSuggestion", "Expand", "Cancel"}
           => UNCHANGED << patients, workflow_state, inpatient_data,
                           discharge_plans, plan_sections, qc_flags,
                           finalization_data, session >>
        /\ \A i \in 1..Len(plan_sections) :
              plan_sections'[i] # plan_sections[i]
                 => /\ last'.op = "ApplySuggestion"
                    /\ last'.result = "ok"
                    /\ dialog[last'.flag].generation_started
                    /\ dialog'[last'.flag] = NoDialog ]_vars

\* an expansion has returned text for a RED flag: the text waits in the
\* dialog, the flag is unresolved and the status is still RED
C19_Witness ==
    /\ last.op = "Expand"
    /\ last.result = "ok"
    /\ \E f \in 1..Len(qc_flags) :
          /\ dialog[f].show
          /\ dialog[f].expanded_content.text = << "b" >>
          /\ ~qc_flags[f].resolved
          /\ qc_flags[f].severity = "RED"
          /\ get_plan_sections(plan_sections, qc_flags[f].plan_id)
                [qc_flags[f].target_section] # << "b" >>
    /\ patients[last.patient].qc_status = "RED"
    /\ ~workflow_state[last.patient].qc_clearance_done

\* the dialog of flag f draws a commit button and a cancel button
OffersCommitAndCancel(f) ==
    \/ dialog[f].expansion_error
    \/ /\ ~dialog[f].expanded_content.is_none
       /\ dialog[f].expanded_content.text # << >>

\* C39: once the expansion call of an open dialog has returned, with text,
\* with empty text or with an error, the dialog offers a commit and a
\* cancel button; and the expansion call is made only for a dialog that has
\* not made it since it was opened.
C39_DialogOffersCommitAndCancel ==
    /\ [](\A f \in DialogFlags("s1") :
             dialog[f].generation_started => OffersCommitAndCancel(f))
    /\ [][ last'.op = "Expand"
           => \A f \in 1..Len(qc_flags) :
                 dialog'[f] # dialog[f] => ~dialog[f].generation_started ]_vars

-----------------------------------------------------------------------------
(* Two sessions, each on a patient of its choice: plans are generated and  *)
(* flags applied for either patient, and resolve_qc_flag is also called on *)
(* its own with any id                                                     *)

IdleFlags == UNCHANGED << response_text, parsed, retry, review, dialog, thread >>

\* resolve_qc_flag(flag_id), called on its own; an id without a row
\* updates nothing
ResolveFlag(flag_id) ==
    /\ qc_flags' = resolve_qc_flag(qc_flags, flag_id)
    /\ last' = [ op |-> "ResolveFlag", patient |-> "p1",
                 result |-> IF flag_id \in 1..Len(qc_flags) THEN "ok" ELSE "no_row",
                 flag |-> flag_id ]
    /\ UNCHANGED << patients, workflow_state, inpatient_data, discharge_plans,
                    plan_sections, finalization_data, session, edits >>

NextFlags ==
    \/ \E s \in Sessions, p \in Patients : SelectPatient(s, p) /\ IdleFlags
    \/ \E s \in Sessions, r \in ServiceOutcomes, qc \in QCOutcomes :
          Generate(s, r, qc) /\ IdleFlags
    \/ \E s \in Sessions, f \in 1..Len(qc_flags), c \in ApplyContents :
          ApplySuggestion(s, f, c) /\ IdleFlags
    \/ \E f \in 1..(Len(qc_flags) + 1) : ResolveFlag(f) /\ IdleFlags

SpecFlags == Init /\ [][NextFlags]_vars

\* C20: a committed apply of a flag, and resolve_qc_flag called with an id,
\* add and remove no flag row, leave every row with another id as it was,
\* whichever patient it belongs to, and change nothing but the resolved bit
\* of the row with that id.
C20_ResolveTouchesOneFlag ==
    [][ ( \/ last'.op = "ResolveFlag"
          \/ (last'.op = "ApplySuggestion" /\ last'.result \in Committed) )
        => /\ Len(qc_flags') = Len(qc_flags)
           /\ \A y \in 1..Len(qc_flags) :
                 IF y = last'.flag
                 THEN qc_flags'[y] = [qc_flags[y] EXCEPT !.resolved = TRUE]
                 ELSE qc_flags'[y] = qc_flags[y] ]_vars

\* one flag of each patient; the first was applied and is resolved, the
\* other patient's flag is unresolved
C20_Witness ==
    /\ last.op = "ApplySuggestion"
    /\ last.result \in Committed
    /\ Len(qc_flags) = 2
    /\ qc_flags[1].patient_id # qc_flags[2].patient_id
    /\ last.flag = 1
    /\ qc_flags[1].resolved
    /\ ~qc_flags[2].resolved

-----------------------------------------------------------------------------
(* _apply_qc_suggestion statement by statement.  Each session runs its     *)
(* script in a thread of its own and every database call opens its own     *)
(* connection and commits on its own (DatabaseConnection.get_connection),  *)
(* so the calls of two sessions interleave.  Plans are generated while no  *)
(* apply is under way.                                                     *)

IdleConc == UNCHANGED << response_text, parsed, retry, review, dialog >>

AllIdle == \A s \in Sessions : thread[s].pc = "idle"

ConcGenerate(s, r, qc) ==
    /\ AllIdle
    /\ Generate(s, r, qc)
    /\ UNCHANGED thread

\* get_current_plan, get_plan_sections, update_plan_section of the cleaned
\* content when the section is there
ApplyWriteSection(s, flag_id, content) ==
    LET p             == Selected(s)
        current_plan  == get_current_plan(discharge_plans, p)
        sections_dict == get_plan_sections(plan_sections, current_plan)
        section_name  == qc_flags[flag_id].target_section
        written       == section_name # "" /\ section_name \in DOMAIN sections_dict
    IN  /\ thread[s].pc = "idle"
        /\ flag_id \in get_qc_flags(qc_flags, p, FALSE)
        /\ current_plan # 0
        /\ plan_sections' =
             IF written
             THEN update_plan_section(plan_sections, current_plan,
                                      section_name, CleanContent(content))
             ELSE plan_sections
        /\ thread' = [thread EXCEPT ![s] =
                        [ pc |-> "resolve", flag |-> flag_id, content |-> content,
                          written |-> written, new_status |-> "",
                          clearance |-> FALSE ]]
        /\ UNCHANGED << patients, workflow_state, inpatient_data, discharge_plans,
                        qc_flags, finalization_data, session, last, edits >>

\* resolve_qc_flag(flag.id)
ApplyResolve(s) ==
    /\ thread[s].pc = "resolve"
    /\ qc_flags' = resolve_qc_flag(qc_flags, thread[s].flag)
    /\ thread' = [thread EXCEPT ![s].pc = "read_flags"]
    /\ UNCHANGED << patients, workflow_state, inpatient_data, discharge_plans,
                    plan_sections, finalization_data, session, last, edits >>

\* unresolved_flags = get_qc_flags(...); remaining_flags; new_status
ApplyReadFlags(s) ==
    /\ thread[s].pc = "read_flags"
    /\ thread' = [thread EXCEPT
                    ![s].pc = "write_status",
                    ![s].new_status =
                        RemainingStatus(qc_flags, Selected(s), thread[s].flag)]
    /\ UNCHANGED << dbVars, session, last, edits >>

\* update_patient(p.patient_id, qc_status=new_status); p.qc_status = ...
ApplyWriteStatus(s) ==
    /\ thread[s].pc = "write_status"
    /\ patients' = update_patient_qc(patients, Selected(s), thread[s].new_status)
    /\ session' = SetSessionQc(session, s, Selected(s), thread[s].new_status)
    /\ thread' = [thread EXCEPT ![s].pc = "check_clearance"]
    /\ UNCHANGED << workflow_state, inpatient_data, discharge_plans, plan_sections,
                    qc_flags, finalization_data, last, edits >>

\* check_qc_clearance(p.patient_id)
ApplyCheckClearance(s) ==
    /\ thread[s].pc = "check_clearance"
    /\ thread' = [thread EXCEPT
                    ![s].pc = "write_gate",
                    ![s].clearance = check_qc_clearance(qc_flags, Selected(s))]
    /\ UNCHANGED << dbVars, session, last, edits >>

\* update_workflow_state(p.patient_id, qc_clearance_done=...); the function
\* returns
ApplyWriteGate(s) ==
    /\ thread[s].pc = "write_gate"
    /\ workflow_state' =
         update_workflow_state(workflow_state, Selected(s), "qc_clearance_done",
                               thread[s].clearance)
    /\ session' = SetSessionGate(session, s, "qc_clearance_done", thread[s].clearance)
    /\ thread' = [thread EXCEPT ![s] = NoThread]
    /\ last' = [ op |-> "ApplySuggestion", patient |-> Selected(s),
                 result |-> IF thread[s].written THEN "ok" ELSE "no_target",
                 flag |-> thread[s].flag,
                 content |-> thread[s].content, prev |-> PrevApply ]
    /\ UNCHANGED << patients, inpatient_data, discharge_plans, plan_sections,
                    qc_flags, finalization_data, edits >>

NextConc ==
    \E s \in Sessions :
        \/ \E r \in ServiceOutcomes, qc \in QCOutcomes :
              ConcGenerate(s, r, qc) /\ IdleConc
        \/ \E f \in 1..Len(qc_flags), c \in ApplyContents :
              ApplyWriteSection(s, f, c) /\ IdleConc
        \/ ApplyResolve(s) /\ IdleConc
        \/ ApplyReadFlags(s) /\ IdleConc
        \/ ApplyWriteStatus(s) /\ IdleConc
        \/ ApplyCheckClearance(s) /\ IdleConc
        \/ ApplyWriteGate(s) /\ IdleConc

SpecConc == Init /\ [][NextConc]_vars

\* C23: when an apply has returned and no session is inside an apply, the
\* stored QC status of the patient is the aggregate of the flags that are
\* unresolved and qc_clearance_done says that none of them is RED or YELLOW,
\* however the statements of the applies of two sessions interleaved.
C23_ConcurrentAppliesKeepAggregate ==
    (AllIdle /\ last.op = "ApplySuggestion" /\ last.result \in Committed)
    => /\ patients[last.patient].qc_status
             = Aggregate(qc_flags, UnresolvedOf(last.patient))
       /\ workflow_state[last.patient].qc_clearance_done
             = NoCriticalUnresolved(last.patient)

-----------------------------------------------------------------------------
(* Two sessions on the same patient: each holds its own list of Patient    *)
(* objects, loaded when the session started (init_state), and get_patient  *)
(* reads that list before the database                                     *)

NextSessions ==
    \E s \in Sessions :
        \/ \E r \in ServiceOutcomes, qc \in QCOutcomes : Generate(s, r, qc) /\ Idle
        \/ \E qc \in QCOutcomes : RerunQC(s, qc) /\ Idle
        \/ FinalizeRefused(s) /\ Idle
        \/ Finalize(s) /\ Idle

SpecSessions == Init /\ [][NextSessions]_vars

\* C24: a Finalize request completes only when the QC status stored for the
\* patient is GREEN at the time it is processed, and a request processed
\* while the stored status is RED or YELLOW is refused and changes nothing,
\* whichever session stored that status.
C24_FinalizeReadsStoredStatus ==
    [][ last'.op = "Finalize"
        => IF patients[last'.patient].qc_status = "GREEN"
           THEN TRUE
           ELSE /\ last'.result = "refused"
                /\ UNCHANGED << patients, workflow_state, inpatient_data,
                                discharge_plans, plan_sections, qc_flags,
                                finalization_data >> ]_vars


-----------------------------------------------------------------------------
(* Generate with a storage failure inside the section loop: every           *)
(* operation of db_operations commits on a connection of its own, so what   *)
(* was committed before the exception stays                                 *)

\* the first k rounds of the loop "for section_name, content in
\* sections.items()"
RECURSIVE SaveFirstSections(_, _, _, _, _)
SaveFirstSections(rows, plan_id, sections, i, k) ==
    IF i > k THEN rows
    ELSE SaveFirstSections(
            update_plan_section(rows, plan_id, Title(section_names[i]),
                                sections[Title(section_names[i])]),
            plan_id, sections, i + 1, k)

\* a variant of GenerateAborts: the plan row and the sections are written
\* in one transaction, which the exception rolls back
GenerateAbortsAtomic(s, r, k) ==
    /\ ~r.raised
    /\ ~Generated[r.text].raised
    /\ Len(discharge_plans) < MaxPlans
    /\ last' = [ op |-> "Generate", patient |-> Selected(s),
                 result |-> "aborted", stored |-> k ]
    /\ UNCHANGED << dbVars, session, edits >>

\* Generate tab: create_discharge_plan has committed, k rounds of the
\* section loop have committed, and update_plan_section raises in round
\* k + 1: the except branch reports the error and returns
GenerateAborts(s, r, k) ==
    LET p        == Selected(s)
        sections == Generated[r.text].sections
        plans1   == create_discharge_plan(discharge_plans, p)
        plan_id  == Len(plans1)
    IN  /\ ~r.raised
        /\ ~Generated[r.text].raised
        /\ Len(discharge_plans) < MaxPlans
        /\ discharge_plans' = plans1
        /\ plan_sections' = SaveFirstSections(plan_sections, plan_id, sections, 1, k)
        /\ last' = [ op |-> "Generate", patient |-> p,
                     result |-> "aborted", stored |-> k ]
        /\ UNCHANGED << patients, workflow_state, inpatient_data, qc_flags,
                        finalization_data, session, edits >>

NextAbort ==
    \E s \in {"s1"} :
        \/ \E r \in ServiceOutcomes : GenerateFails(s, r) /\ Idle
        \/ \E r \in ServiceOutcomes, qc \in QCOutcomes : Generate(s, r, qc) /\ Idle
        \/ \E r \in ServiceOutcomes, k \in 0..(Len(section_names) - 1) :
              GenerateAborts(s, r, k) /\ Idle
        \/ \E qc \in QCOutcomes : RerunQCFails(s, qc) /\ Idle
        \/ \E qc \in QCOutcomes : RerunQC(s, qc) /\ Idle
        \/ FinalizeRefused(s) /\ Idle
        \/ Finalize(s) /\ Idle

SpecAbort == Init /\ [][NextAbort]_vars

\* the sections a generation stores in its first k rounds
FirstSections(k) ==
    { d \in { [ n \in { Title(section_names[i]) : i \in 1..k } |->
                  Generated[t].sections[n] ] : t \in GenResponses } : TRUE }

\* C31: a Generate that fails after the plan row is created and k < 6
\* sections are stored leaves that plan as the patient's current plan, the
\* earlier plans of the patient superseded, exactly those k sections stored
\* for it, and nothing else written: the plan row is the row a complete
\* generation writes, and the patient, the gates (ai_generation_done among
\* them) and the flags are as before.
C31_AbortedGenerateKeepsPartialPlan ==
    [][ (last'.op = "Generate" /\ last'.result = "aborted")
        => LET p    == last'.patient
               plan == get_current_plan(discharge_plans', p)
           IN  /\ last'.stored < Len(section_names)
               /\ plan = Len(discharge_plans')
               /\ plan = Len(discharge_plans) + 1
               /\ discharge_plans' = create_discharge_plan(discharge_plans, p)
               /\ \A i \in 1..Len(discharge_plans) :
                     discharge_plans[i].patient_id = p
                        => ~discharge_plans'[i].is_current
               /\ get_plan_sections(plan_sections', plan) \in FirstSections(last'.stored)
               /\ \A i \in 1..Len(discharge_plans) :
                     get_plan_sections(plan_sections', i)
                        = get_plan_sections(plan_sections, i)
               /\ UNCHANGED << patients, workflow_state, inpatient_data,
                               qc_flags, finalization_data, session >> ]_vars

\* a plan that superseded a complete one is current with three of its six
\* sections, while ai_generation_done is still set from the first generation
C31_Witness ==
    /\ last.op = "Generate" /\ last.result = "aborted" /\ last.stored = 3
    /\ Len(discharge_plans) = 2
    /\ get_current_plan(discharge_plans, last.patient) = 2
    /\ DOMAIN get_plan_sections(plan_sections, 2)
         = { Title(section_names[i]) : i \in 1..3 }
    /\ workflow_state[last.patient].ai_generation_done

-----------------------------------------------------------------------------
(* create_discharge_plan called by two sessions at once: each call has a   *)
(* connection of its own; the SELECT runs outside a transaction, the       *)
(* UPDATE opens the write transaction that the INSERT and the commit end,  *)
(* and SQLite admits one writer at a time                                  *)

\* SELECT MAX(version) ...; next_version = (result[0] or 0) + 1
CreateReadVersion(s, p) ==
    /\ thread[s].pc = "idle"
    /\ Len(discharge_plans)
         + Cardinality({ t \in Sessions : thread[t].pc = "write_plan" }) < MaxPlanRows
    /\ thread' = [thread EXCEPT ![s] =
                    [ pc |-> "write_plan", patient |-> p,
                      next_version |->
                          MaxOf({ discharge_plans[i].version :
                                    i \in { j \in 1..Len(discharge_plans) :
                                              discharge_plans[j].patient_id = p } }) + 1 ]]
    /\ UNCHANGED << dbVars, session, last, edits >>

\* UPDATE ... SET is_current = 0; INSERT ... is_current 1; commit
CreateWritePlan(s) ==
    LET p      == thread[s].patient
        marked == [ i \in 1..Len(discharge_plans) |->
                      IF discharge_plans[i].patient_id = p
                      THEN [discharge_plans[i] EXCEPT !.is_current = FALSE]
                      ELSE discharge_plans[i] ]
    IN  /\ thread[s].pc = "write_plan"
        /\ discharge_plans' =
             Append(marked, [ patient_id |-> p,
                              version    |-> thread[s].next_version,
                              is_current |-> TRUE ])
        /\ thread' = [thread EXCEPT ![s] = NoThread]
        /\ last' = Done("CreatePlan", p, "ok")
        /\ UNCHANGED << patients, workflow_state, inpatient_data, plan_sections,
                        qc_flags, finalization_data, session, edits >>

NextCreate ==
    \E s \in Sessions :
        \/ \E p \in Patients : CreateReadVersion(s, p) /\ IdleConc
        \/ CreateWritePlan(s) /\ IdleConc

SpecCreate == Init /\ [][NextCreate]_vars

\* C33: however the plan creations of two sessions interleave, a patient
\* with plans has exactly one current plan, and no two plans of one patient
\* have the same version number.
C33_InterleavedCreationsKeepVersionsApart ==
    \A p \in Patients :
        PlansOf(p) # {} =>
           /\ Cardinality({ i \in PlansOf(p) : discharge_plans[i].is_current }) = 1
           /\ \A i, j \in PlansOf(p) :
                 i # j => discharge_plans[i].version # discharge_plans[j].version
=============================================================================
